---- MODULE Spec2Model ----
(***************************************************************************)
(* Item tracking store (src/src/main.py, with the earlier revision in      *)
(* src/scanner.py): barcodes, the SQLite tables, and the operator sessions *)
(* that read and write them, one step per SQL statement group.             *)
(*                                                                         *)
(* Texts are sequences of one-character strings, so that split, join,     *)
(* int(), str() and the zero-padded formatting are computed, not assumed.  *)
(***************************************************************************)
EXTENDS Integers, Sequences, FiniteSets, TLC

VARIABLES db, lock, tx, pc, loc, ops, clock

vars == <<db, lock, tx, pc, loc, ops, clock>>

(***************************************************************************)
(* Bounds of the model                                                     *)
(***************************************************************************)
\* operations one process starts in a run
MaxOps == 4
\* largest quantity typed into create_batch
MaxQuantity == 2

\* the seconds that pass at most
MaxClock == 2

(***************************************************************************)
(* Text primitives                                                         *)
(***************************************************************************)
DigitChars == <<"0", "1", "2", "3", "4", "5", "6", "7", "8", "9">>

IsDigitChar(c) == \E d \in 1..10 : DigitChars[d] = c

DigitVal(c) == (CHOOSE d \in 1..10 : DigitChars[d] = c) - 1

LowerChars ==
    <<"a", "b", "c", "d", "e", "f", "g", "h", "i", "j", "k", "l", "m",
      "n", "o", "p", "q", "r", "s", "t", "u", "v", "w", "x", "y", "z">>

UpperChars ==
    <<"A", "B", "C", "D", "E", "F", "G", "H", "I", "J", "K", "L", "M",
      "N", "O", "P", "Q", "R", "S", "T", "U", "V", "W", "X", "Y", "Z">>

IsLowerChar(c) == \E i \in 1..Len(LowerChars) : LowerChars[i] = c

IsUpperChar(c) == \E i \in 1..Len(UpperChars) : UpperChars[i] = c

\* str.isalnum on one character
IsAlnumChar(c) == IsDigitChar(c) \/ IsLowerChar(c) \/ IsUpperChar(c)

\* str.upper on one character
UpperChar(c) ==
    IF IsLowerChar(c)
    THEN UpperChars[CHOOSE i \in 1..Len(LowerChars) : LowerChars[i] = c]
    ELSE c

\* str.upper
upper(s) == [i \in 1..Len(s) |-> UpperChar(s[i])]

\* str.isdigit: non-empty and every character a digit
isdigit(s) == Len(s) > 0 /\ \A i \in 1..Len(s) : IsDigitChar(s[i])

\* str.strip over the blank character
RECURSIVE strip(_)
strip(s) ==
    IF Len(s) = 0 THEN s
    ELSE IF s[1] = " " THEN strip(Tail(s))
    ELSE IF s[Len(s)] = " " THEN strip(SubSeq(s, 1, Len(s) - 1))
    ELSE s

\* barcode.split('_')
RECURSIVE split(_)
split(s) ==
    IF \A i \in 1..Len(s) : s[i] # "_" THEN <<s>>
    ELSE LET k == CHOOSE i \in 1..Len(s) :
                      s[i] = "_" /\ \A j \in 1..(i - 1) : s[j] # "_"
         IN  <<SubSeq(s, 1, k - 1)>> \o split(SubSeq(s, k + 1, Len(s)))

\* '_'.join(parts)
RECURSIVE join(_)
join(parts) ==
    IF Len(parts) = 0 THEN <<>>
    ELSE IF Len(parts) = 1 THEN parts[1]
    ELSE parts[1] \o <<"_">> \o join(Tail(parts))

\* value of a digit string
RECURSIVE DigitsVal(_)
DigitsVal(s) ==
    IF Len(s) = 0 THEN 0
    ELSE 10 * DigitsVal(SubSeq(s, 1, Len(s) - 1)) + DigitVal(s[Len(s)])

\* int(s) raises ValueError unless s, without the blanks around it, is an
\* optionally signed digit string
IntOk(s) ==
    LET t == strip(s)
    IN  \/ isdigit(t)
        \/ Len(t) > 1 /\ t[1] \in {"+", "-"} /\ isdigit(Tail(t))

\* int(s)
IntVal(s) ==
    LET t == strip(s)
    IN  IF isdigit(t) THEN DigitsVal(t)
        ELSE IF t[1] = "-" THEN 0 - DigitsVal(Tail(t))
        ELSE DigitsVal(Tail(t))

\* decimal digits of a natural number
RECURSIVE NatText(_)
NatText(n) ==
    IF n < 10 THEN <<DigitChars[n + 1]>>
    ELSE NatText(n \div 10) \o <<DigitChars[(n % 10) + 1]>>

\* str(n)
IntText(n) == IF n < 0 THEN <<"-">> \o NatText(0 - n) ELSE NatText(n)

\* f"{i:04d}" for i >= 0: padded with zeros to four digits, longer kept whole
RECURSIVE ZeroPad(_, _)
ZeroPad(s, w) == IF Len(s) >= w THEN s ELSE ZeroPad(<<"0">> \o s, w)

Format04d(i) == ZeroPad(NatText(i), 4)

\* filter(str.isalnum, s)
RECURSIVE FilterAlnum(_)
FilterAlnum(s) ==
    IF Len(s) = 0 THEN <<>>
    ELSE IF IsAlnumChar(s[1]) THEN <<s[1]>> \o FilterAlnum(Tail(s))
    ELSE FilterAlnum(Tail(s))

to_upper_alphanumeric(s) == upper(FilterAlnum(s))

looks_like_item_barcode(barcode) ==
    Len(barcode) > 0 /\ Len(split(barcode)) \in {5, 6}

(***************************************************************************)
(* The database: the tables of init_database, as one record.  Tables whose *)
(* rows are only appended or deleted are sequences in insertion order;     *)
(* items, locations and item_codes carry a UNIQUE column and are sets.     *)
(* PRAGMA foreign_keys is set on init_database's connection only, so the   *)
(* connections of every other function run with SQLite's default: the      *)
(* FOREIGN KEY clauses are not enforced and nothing cascades.              *)
(***************************************************************************)
INITIAL_ITEM_CODES ==
    { [code |-> <<"P", "I", "P", "I">>, name |-> "PioPino"],
      [code |-> <<"C", "H", "N", "U">>, name |-> "Chestnut"],
      [code |-> <<"K", "I", "O", "Y">>, name |-> "KingOyster"],
      [code |-> <<"B", "L", "O", "Y">>, name |-> "BlueOyster"],
      [code |-> <<"P", "I", "O", "Y">>, name |-> "PinkOyster"],
      [code |-> <<"L", "I", "M", "A">>, name |-> "Lionsmane"],
      [code |-> <<"I", "N", "V", "E">>, name |-> "Inventory"],
      [code |-> <<"S", "T", "O", "R">>, name |-> "Storage"],
      [code |-> <<"M", "I", "S", "C">>, name |-> "Miscellaneous"] }

init_database ==
    [ items          |-> {},
      item_seq       |-> 0,
      notes          |-> <<>>,
      item_locations |-> <<>>,
      item_scans     |-> <<>>,
      batch_scans    |-> <<>>,
      locations      |-> {},
      item_codes     |-> INITIAL_ITEM_CODES ]

\* SELECT ... FROM items WHERE full_barcode = ?
ItemsByBarcode(d, barcode) == {i \in d.items : i.full_barcode = barcode}

\* SELECT 1 FROM locations WHERE barcode = ?
\* a bug: the SELECT on locations without its WHERE
LocationsByBarcode_no_where(d, barcode) == d.locations

LocationsByBarcode(d, barcode) == {l \in d.locations : l.barcode = barcode}

\* INSERT INTO items (...): the row gets the next AUTOINCREMENT id.  The
\* UNIQUE constraint on full_barcode is checked by the caller of this operator.
InsertItem(d, full_barcode, batch_barcode, item_type, generation, created_date, status) ==
    [d EXCEPT !.item_seq = @ + 1,
              !.items = @ \cup
                  { [ id             |-> d.item_seq + 1,
                      full_barcode   |-> full_barcode,
                      batch_barcode  |-> batch_barcode,
                      item_type      |-> item_type,
                      generation     |-> generation,
                      created_date   |-> created_date,
                      current_status |-> status ] }]

\* a bug: the UPDATE without its WHERE clause
UpdateStatusEveryRow(d, barcode, new_status) ==
    [d EXCEPT !.items = {[i EXCEPT !.current_status = new_status] : i \in @}]

\* UPDATE items SET current_status = ? WHERE full_barcode = ?
UpdateStatusByBarcode(d, barcode, new_status) ==
    [d EXCEPT !.items =
        { IF i.full_barcode = barcode
          THEN [i EXCEPT !.current_status = new_status] ELSE i : i \in @ }]

\* a bug: the UPDATE also overwrites item_type
UpdateStatusById_retyped(d, item_id, new_status) ==
    [d EXCEPT !.items =
        { IF i.id = item_id
          THEN [i EXCEPT !.current_status = new_status, !.item_type = "Unknown"]
          ELSE i : i \in @ }]

\* UPDATE items SET current_status = 'IN' WHERE id = ?
UpdateStatusById(d, item_id, new_status) ==
    [d EXCEPT !.items =
        { IF i.id = item_id
          THEN [i EXCEPT !.current_status = new_status] ELSE i : i \in @ }]

\* INSERT INTO item_scans (...): scan_time defaults to CURRENT_TIMESTAMP
InsertScan(d, barcode, parsed, status, t) ==
    [d EXCEPT !.item_scans = Append(@,
        [ barcode      |-> barcode,
          item_type    |-> parsed.item_type,
          generation   |-> parsed.generation,
          created_date |-> parsed.created_date,
          scan_time    |-> t,
          status       |-> status ])]

\* INSERT INTO item_locations (...): timestamp defaults to CURRENT_TIMESTAMP
InsertItemLocation(d, item_id, location_barcode, t) ==
    [d EXCEPT !.item_locations = Append(@,
        [ item_id          |-> item_id,
          location_barcode |-> location_barcode,
          timestamp        |-> t ])]

\* INSERT INTO batch_scans (...)
InsertBatchScan(d, batch_base, parsed, quantity, t) ==
    [d EXCEPT !.batch_scans = Append(@,
        [ batch_barcode |-> batch_base,
          item_type     |-> parsed.item_type,
          generation    |-> parsed.generation,
          created_date  |-> parsed.created_date,
          quantity      |-> quantity,
          scan_time     |-> t,
          status        |-> "CREATED" ])]

(***************************************************************************)
(* Barcodes                                                                *)
(***************************************************************************)
\* a bug: an empty name for a code that is not registered
get_item_name_empty(d, code) ==
    IF \E r \in d.item_codes : r.code = code
    THEN (CHOOSE r \in d.item_codes : r.code = code).name
    ELSE ""

\* SELECT name FROM item_codes WHERE code = ?, "Unknown" when there is no row
get_item_name(d, code) ==
    IF \E r \in d.item_codes : r.code = code
    THEN (CHOOSE r \in d.item_codes : r.code = code).name
    ELSE "Unknown"

\* parse_barcode returning None
NoneParsed ==
    [ ok |-> FALSE, item_type |-> "", generation |-> <<>>,
      created_date |-> <<>>, full_barcode |-> <<>> ]

\* a bug: a year that is no number kept as it is, without int()
parse_barcode_year_kept(d, barcode, is_batch) ==
    LET parts == split(barcode)
    IN  IF is_batch /\ Len(parts) # 5 THEN NoneParsed
        ELSE IF ~is_batch /\ Len(parts) \notin {5, 6} THEN NoneParsed
        ELSE [ ok           |-> TRUE,
               item_type    |-> get_item_name(d, parts[1]),
               generation   |-> parts[5],
               created_date |-> parts[2] \o <<".">> \o parts[3]
                                   \o <<".">> \o parts[4],
               full_barcode |-> barcode ]

\* a bug: "<= 100" for "< 100"
parse_barcode_century_at_100(d, barcode, is_batch) ==
    LET parts == split(barcode)
    IN  IF is_batch /\ Len(parts) # 5 THEN NoneParsed
        ELSE IF ~is_batch /\ Len(parts) \notin {5, 6} THEN NoneParsed
        ELSE IF ~IntOk(parts[4]) THEN NoneParsed
        ELSE LET year == IntVal(parts[4])
                 full_year == IF year <= 100 THEN 2000 + year ELSE year
             IN  [ ok           |-> TRUE,
                   item_type    |-> get_item_name(d, parts[1]),
                   generation   |-> parts[5],
                   created_date |-> parts[2] \o <<".">> \o parts[3]
                                       \o <<".">> \o IntText(full_year),
                   full_barcode |-> barcode ]

\* a bug: is_batch ignored, five or six fields taken either way
parse_barcode_item_only(d, barcode, is_batch) ==
    LET parts == split(barcode)
    IN  IF Len(parts) \notin {5, 6} THEN NoneParsed
        ELSE IF ~IntOk(parts[4]) THEN NoneParsed
        ELSE LET year == IntVal(parts[4])
                 full_year == IF year < 100 THEN 2000 + year ELSE year
             IN  [ ok           |-> TRUE,
                   item_type    |-> get_item_name(d, parts[1]),
                   generation   |-> parts[5],
                   created_date |-> parts[2] \o <<".">> \o parts[3]
                                       \o <<".">> \o IntText(full_year),
                   full_barcode |-> barcode ]

parse_barcode(d, barcode, is_batch) ==
    LET parts == split(barcode)
    IN  IF is_batch /\ Len(parts) # 5 THEN NoneParsed
        ELSE IF ~is_batch /\ Len(parts) \notin {5, 6} THEN NoneParsed
        ELSE IF ~IntOk(parts[4]) THEN NoneParsed
        ELSE LET year == IntVal(parts[4])
                 full_year == IF year < 100 THEN 2000 + year ELSE year
             IN  [ ok           |-> TRUE,
                   item_type    |-> get_item_name(d, parts[1]),
                   generation   |-> parts[5],
                   created_date |-> parts[2] \o <<".">> \o parts[3]
                                       \o <<".">> \o IntText(full_year),
                   full_barcode |-> barcode ]

(***************************************************************************)
(* Scanned texts                                                           *)
(***************************************************************************)
BaseA == <<"P", "I", "P", "I", "_", "0", "1", "_", "0", "2", "_", "2", "3", "_", "G", "1">>

BaseB == <<"C", "H", "N", "U", "_", "0", "1", "_", "0", "2", "_", "2", "3", "_", "G", "1">>

ItemA1 == BaseA \o <<"_", "0", "0", "0", "1">>

ItemA2 == BaseA \o <<"_", "0", "0", "0", "2">>

ItemB1 == BaseB \o <<"_", "0", "0", "0", "1">>

\* a sixth field that is not a number
ItemAX == BaseA \o <<"_", "0", "0", "A", "1">>

\* four fields only
BadCount == <<"P", "I", "P", "I", "_", "0", "1", "_", "0", "2", "_", "2", "3">>

\* a year that int() rejects
BadYear == <<"P", "I", "P", "I", "_", "0", "1", "_", "0", "2", "_", "Y", "Y", "_", "G", "1">>

\* item codes as typed at the prompt of remove_item_code
CodeLower == <<"p", "i", "p", "i">>

CodeB == <<"C", "H", "N", "U">>

LocT1 == <<"T", "1">>

LocT2 == <<"T", "2">>

LocLower == <<"t", "1">>

(***************************************************************************)
(* Processes: each is one run of main(), with its position, its locals,    *)
(* and the uncommitted writes of the connection it has open.  SQLite lets  *)
(* one connection write at a time: lock names the process whose connection *)
(* holds the write lock (0: none), tx[p] its working copy (<<>>: none).    *)
(***************************************************************************)
AllProcs == {1, 2}

max_retries == 3

LocInit ==
    [ op            |-> "none",
      barcode       |-> <<>>,
      parsed        |-> NoneParsed,
      location      |-> <<>>,
      location_name |-> "",
      code          |-> <<>>,
      name          |-> "",
      filter        |-> [item_type |-> "", generation |-> <<>>,
                         location_barcode |-> <<>>, date |-> <<>>],
      results       |-> {},
      item_id       |-> 0,
      current_status |-> "",
      rowcount      |-> 0,
      batch_base    |-> <<>>,
      start_num     |-> 0,
      quantity      |-> 0,
      retries       |-> 0,
      note          |-> "",
      out_count     |-> 0,
      ens_ret       |-> "none",
      upd_ret       |-> "none",
      ret           |-> "none",
      failure       |-> "none",
      snap          |-> init_database ]

\* the state after init_database, every process at the menu of main() with
\* budget[p] operations left to start
InitWith(budget) ==
    /\ db = init_database
    /\ lock = 0
    /\ tx = [p \in AllProcs |-> <<>>]
    /\ pc = [p \in AllProcs |-> "idle"]
    /\ loc = [p \in AllProcs |-> LocInit]
    /\ ops = budget
    /\ clock = 0

Init == InitWith([p \in AllProcs |-> MaxOps])

\* another connection holds the write lock: a write statement of p waits, and
\* when the wait outlasts the connection's timeout raises "database is locked"
LockedByOther(p) == lock # 0 /\ lock # p

\* what a statement on p's connection reads
View(p) == IF tx[p] # <<>> THEN tx[p][1] ELSE db

\* a write statement on p's connection takes the write lock if it has none
Write(p, d) ==
    /\ lock' = p
    /\ tx' = [tx EXCEPT ![p] = <<d>>]
    /\ db' = db

\* conn.commit()
Commit(p) ==
    /\ db' = View(p)
    /\ lock' = IF lock = p THEN 0 ELSE lock
    /\ tx' = [tx EXCEPT ![p] = <<>>]

\* conn.rollback(), and conn.close() with writes not committed
Rollback(p) ==
    /\ db' = db
    /\ lock' = IF lock = p THEN 0 ELSE lock
    /\ tx' = [tx EXCEPT ![p] = <<>>]

Goto(p, label) == pc' = [pc EXCEPT ![p] = label]

\* a process starts an operation while it has some left to start
StartOp(p) ==
    /\ pc[p] = "idle"
    /\ ops[p] > 0
    /\ ops' = [ops EXCEPT ![p] = @ - 1]

(***************************************************************************)
(* ensure_item_exists                                                      *)
(***************************************************************************)
\* where the caller goes on with ensure_item_exists's return value
AfterEnsure(op, ok) ==
    IF op = "checkout" /\ ok THEN "upd_update"
    ELSE IF op = "move_item" /\ ok THEN "mi_select_again"
    ELSE "idle"

EnsureReturns(p, ok) ==
    /\ loc' = [loc EXCEPT ![p].ens_ret = IF ok THEN "true" ELSE "false",
                          ![p].ret = IF ok THEN @ ELSE "false"]
    /\ Goto(p, AfterEnsure(loc[p].op, ok))

\* a bug: the first two values of the INSERT swapped
ensure_item_exists_writes_swapped(d, l) ==
    InsertItem(d, join(SubSeq(split(l.barcode), 1, 5)), l.barcode,
               l.parsed.item_type, l.parsed.generation, l.parsed.created_date, "IN")

\* a bug: the INSERT with status 'OUT'
ensure_item_exists_writes_out(d, l) ==
    InsertItem(d, l.barcode, join(SubSeq(split(l.barcode), 1, 5)),
               l.parsed.item_type, l.parsed.generation, l.parsed.created_date, "OUT")

\* batch_barcode from the first five parts, then the INSERT with status 'IN'
ensure_item_exists_writes(d, l) ==
    InsertItem(d, l.barcode, join(SubSeq(split(l.barcode), 1, 5)),
               l.parsed.item_type, l.parsed.generation, l.parsed.created_date, "IN")

ensure_item_exists_select(p) ==
    /\ pc[p] = "ens_select"
    /\ UNCHANGED <<db, lock, tx, ops, clock>>
    /\ IF ItemsByBarcode(db, loc[p].barcode) # {}
       THEN EnsureReturns(p, TRUE)
       ELSE IF Len(split(loc[p].barcode)) < 5
       THEN EnsureReturns(p, FALSE)
       ELSE Goto(p, "ens_insert") /\ UNCHANGED loc

ensure_item_exists_insert(p) ==
    /\ pc[p] = "ens_insert"
    /\ UNCHANGED <<ops, clock>>
    /\ IF LockedByOther(p)
       THEN \* OperationalError, caught by "except Exception": False
            /\ EnsureReturns(p, FALSE)
            /\ UNCHANGED <<db, lock, tx>>
       ELSE IF ItemsByBarcode(db, loc[p].barcode) # {}
       THEN \* IntegrityError on full_barcode UNIQUE: True
            /\ EnsureReturns(p, TRUE)
            /\ UNCHANGED <<db, lock, tx>>
       ELSE /\ Write(p, ensure_item_exists_writes(db, loc[p]))
            /\ Goto(p, "ens_commit")
            /\ UNCHANGED loc

ensure_item_exists_commit(p) ==
    /\ pc[p] = "ens_commit"
    /\ Commit(p)
    /\ EnsureReturns(p, TRUE)
    /\ UNCHANGED <<ops, clock>>

(***************************************************************************)
(* update_item_status and log_scan                                         *)
(***************************************************************************)
update_item_status_update(p) ==
    /\ pc[p] = "upd_update"
    /\ UNCHANGED <<ops, clock>>
    /\ IF LockedByOther(p)
       THEN \* "Error updating status": False, and main goes on to log_scan
            /\ loc' = [loc EXCEPT ![p].upd_ret = "false"]
            /\ Goto(p, "log_insert")
            /\ UNCHANGED <<db, lock, tx>>
       ELSE /\ Write(p, UpdateStatusByBarcode(db, loc[p].barcode, "OUT"))
            /\ loc' = [loc EXCEPT ![p].rowcount =
                           Cardinality(ItemsByBarcode(db, loc[p].barcode))]
            /\ Goto(p, "upd_commit")

update_item_status_commit(p) ==
    /\ pc[p] = "upd_commit"
    /\ Commit(p)
    /\ loc' = [loc EXCEPT ![p].upd_ret =
                   IF loc[p].rowcount > 0 THEN "true" ELSE "false"]
    /\ Goto(p, "log_insert")
    /\ UNCHANGED <<ops, clock>>

log_scan_insert(p) ==
    /\ pc[p] = "log_insert"
    /\ UNCHANGED <<ops, clock>>
    /\ IF LockedByOther(p)
       THEN \* "database is locked": retries += 1, sleep, continue
            /\ loc' = [loc EXCEPT ![p].retries = @ + 1,
                                  ![p].ret = IF loc[p].retries + 1 < max_retries
                                             THEN @ ELSE "false"]
            /\ Goto(p, IF loc[p].retries + 1 < max_retries
                       THEN "log_insert" ELSE "idle")
            /\ UNCHANGED <<db, lock, tx>>
       ELSE /\ Write(p, InsertScan(db, loc[p].parsed.full_barcode,
                                   loc[p].parsed, "OUT", clock))
            /\ Goto(p, "log_commit")
            /\ UNCHANGED loc

log_scan_commit(p) ==
    /\ pc[p] = "log_commit"
    /\ Commit(p)
    /\ loc' = [loc EXCEPT ![p].ret = "true"]
    /\ Goto(p, "idle")
    /\ UNCHANGED <<ops, clock>>

\* the INSERT raises an error other than "database is locked": "Save error",
\* return False; finally: conn.close()
log_scan_insert_fails(p) ==
    /\ pc[p] = "log_insert"
    /\ ~LockedByOther(p)
    /\ loc' = [loc EXCEPT ![p].ret = "false", ![p].failure = "error"]
    /\ Goto(p, "idle")
    /\ UNCHANGED <<db, lock, tx, ops, clock>>

(***************************************************************************)
(* main, choice 2: one scan of the check-out loop                          *)
(***************************************************************************)
check_out_scan(p, inputs) ==
    /\ StartOp(p)
    /\ \E text \in inputs :
          LET barcode == strip(text)
              parsed == parse_barcode(db, barcode, FALSE)
          IN  /\ loc' = [loc EXCEPT ![p] =
                    [LocInit EXCEPT !.op = "checkout",
                                    !.barcode = barcode,
                                    !.parsed = parsed,
                                    !.ret = IF parsed.ok THEN "none" ELSE "invalid",
                                    !.snap = db]]
              /\ Goto(p, IF parsed.ok THEN "ens_select" ELSE "idle")
    /\ UNCHANGED <<db, lock, tx, clock>>

(***************************************************************************)
(* ensure_item_exists called on its own, after parse_barcode                *)
(***************************************************************************)
ensure_call(p, inputs) ==
    /\ StartOp(p)
    /\ \E text \in inputs :
          LET barcode == strip(text)
              parsed == parse_barcode(db, barcode, FALSE)
          IN  /\ loc' = [loc EXCEPT ![p] =
                    [LocInit EXCEPT !.op = "ensure",
                                    !.barcode = barcode,
                                    !.parsed = parsed,
                                    !.ret = IF parsed.ok THEN "none" ELSE "invalid",
                                    !.snap = db]]
              /\ Goto(p, IF parsed.ok THEN "ens_select" ELSE "idle")
    /\ UNCHANGED <<db, lock, tx, clock>>

(***************************************************************************)
(* register_location_session and register_location                        *)
(***************************************************************************)
NameTent == <<"T", "e", "n", "t">>

NameShelf == <<"S", "h", "e", "l", "f">>

\* str.isalnum
is_alphanumeric(s) == Len(s) > 0 /\ \A i \in 1..Len(s) : IsAlnumChar(s[i])

\* a bug: the replaced location row takes its assignments with it
InsertOrReplaceLocation_cascade(d, barcode, location_name) ==
    LET Keep(r) == r.location_barcode # barcode
    IN  [d EXCEPT !.locations =
                      {l \in @ : l.barcode # barcode}
                          \cup {[barcode |-> barcode, location_name |-> location_name]},
                  !.item_locations = SelectSeq(@, Keep)]

\* INSERT OR REPLACE INTO locations (barcode, location_name)
InsertOrReplaceLocation(d, barcode, location_name) ==
    [d EXCEPT !.locations =
        {l \in @ : l.barcode # barcode}
            \cup {[barcode |-> barcode, location_name |-> location_name]}]

register_location_session(p, inputs, names) ==
    /\ StartOp(p)
    /\ \E text \in inputs, name_text \in names :
          LET location_barcode == upper(strip(text))
              location_name == strip(name_text)
              valid == /\ Len(location_barcode) > 0 /\ Len(location_name) > 0
                       /\ is_alphanumeric(location_barcode)
                       /\ Len(to_upper_alphanumeric(location_barcode)) > 0
                       /\ Len(strip(location_name)) > 0
          IN  /\ loc' = [loc EXCEPT ![p] =
                    [LocInit EXCEPT !.op = "register",
                                    !.location = to_upper_alphanumeric(location_barcode),
                                    !.location_name = location_name,
                                    !.ret = IF valid THEN "none" ELSE "invalid",
                                    !.snap = db]]
              /\ Goto(p, IF valid THEN "reg_insert" ELSE "idle")
    /\ UNCHANGED <<db, lock, tx, clock>>

register_location_insert(p) ==
    /\ pc[p] = "reg_insert"
    /\ UNCHANGED <<ops, clock>>
    /\ IF LockedByOther(p)
       THEN /\ loc' = [loc EXCEPT ![p].ret = "false"]
            /\ Goto(p, "idle")
            /\ UNCHANGED <<db, lock, tx>>
       ELSE /\ Write(p, InsertOrReplaceLocation(db, loc[p].location,
                                               loc[p].location_name))
            /\ Goto(p, "reg_commit")
            /\ UNCHANGED loc

register_location_commit(p) ==
    /\ pc[p] = "reg_commit"
    /\ Commit(p)
    /\ loc' = [loc EXCEPT ![p].ret = "true"]
    /\ Goto(p, "idle")
    /\ UNCHANGED <<ops, clock>>

(***************************************************************************)
(* move_item_session: one connection for the session, one commit per scan  *)
(***************************************************************************)
move_item_session_start(p, inputs) ==
    /\ StartOp(p)
    /\ \E text \in inputs :
          LET target_location == upper(strip(text))
              found == LocationsByBarcode(db, target_location)
              valid == /\ Len(target_location) > 0
                       /\ ~looks_like_item_barcode(target_location)
                       /\ found # {}
          IN  /\ loc' = [loc EXCEPT ![p] =
                    [LocInit EXCEPT !.op = "move_session",
                                    !.location = target_location,
                                    !.location_name =
                                        IF valid
                                        THEN (CHOOSE l \in found : TRUE).location_name
                                        ELSE <<>>,
                                    !.ret = IF valid THEN "none" ELSE "invalid",
                                    !.snap = db]]
              /\ Goto(p, IF valid THEN "ms_prompt" ELSE "idle")
    /\ UNCHANGED <<db, lock, tx, clock>>

\* input(...) == 'finish': leave the loop; finally: conn.close()
move_item_session_finish(p) ==
    /\ pc[p] = "ms_prompt"
    /\ Rollback(p)
    /\ Goto(p, "idle")
    /\ UNCHANGED <<loc, ops, clock>>

move_item_session_scan(p, inputs) ==
    /\ pc[p] = "ms_prompt"
    /\ ops[p] > 0
    /\ ops' = [ops EXCEPT ![p] = @ - 1]
    /\ \E text \in inputs :
          LET barcode == strip(text)
              parsed == parse_barcode(db, barcode, FALSE)
          IN  /\ loc' = [loc EXCEPT ![p].barcode = barcode,
                                    ![p].parsed = parsed,
                                    ![p].item_id = 0,
                                    ![p].ret = IF parsed.ok THEN "none" ELSE "invalid",
                                    ![p].snap = db]
              /\ Goto(p, IF parsed.ok THEN "ms_select" ELSE "ms_prompt")
    /\ UNCHANGED <<db, lock, tx, clock>>

\* SELECT id, current_status FROM items WHERE full_barcode = ?
move_item_session_select(p) ==
    /\ pc[p] = "ms_select"
    /\ LET rows == ItemsByBarcode(View(p), loc[p].barcode)
       IN  IF rows = {}
           THEN IF Len(split(loc[p].barcode)) < 5
                THEN /\ loc' = [loc EXCEPT ![p].ret = "invalid"]
                     /\ Goto(p, "ms_prompt")
                ELSE /\ loc' = [loc EXCEPT ![p].item_id = 0,
                                           ![p].current_status = ""]
                     /\ Goto(p, "ms_write")
           ELSE LET row == CHOOSE i \in rows : TRUE
                IN  /\ loc' = [loc EXCEPT ![p].item_id = row.id,
                                          ![p].current_status = row.current_status]
                    /\ Goto(p, "ms_write")
    /\ UNCHANGED <<db, lock, tx, ops, clock>>

\* the writes of one scan on database d, item_id = 0 when the SELECT found
\* no row: the item (INSERT, or UPDATE of an OUT item), then the location
\* assignment, then the IN scan
\* a bug: the whole barcode stored as batch_barcode of a new item
move_session_writes_whole_barcode(d, l, t) ==
    LET d1 == IF l.item_id = 0
              THEN InsertItem(d, l.barcode, l.barcode,
                              l.parsed.item_type, l.parsed.generation,
                              l.parsed.created_date, "IN")
              ELSE IF l.current_status = "OUT"
              THEN UpdateStatusById(d, l.item_id, "IN")
              ELSE d
        item_id == IF l.item_id = 0
                   THEN (CHOOSE i \in ItemsByBarcode(d1, l.barcode) : TRUE).id
                   ELSE l.item_id
        d2 == InsertItemLocation(d1, item_id, l.location, t)
    IN  InsertScan(d2, l.barcode, l.parsed, "IN", t)

move_session_writes(d, l, t) ==
    LET d1 == IF l.item_id = 0
              THEN InsertItem(d, l.barcode, join(SubSeq(split(l.barcode), 1, 5)),
                              l.parsed.item_type, l.parsed.generation,
                              l.parsed.created_date, "IN")
              ELSE IF l.current_status = "OUT"
              THEN UpdateStatusById(d, l.item_id, "IN")
              ELSE d
        item_id == IF l.item_id = 0
                   THEN (CHOOSE i \in ItemsByBarcode(d1, l.barcode) : TRUE).id
                   ELSE l.item_id
        d2 == InsertItemLocation(d1, item_id, l.location, t)
    IN  InsertScan(d2, l.barcode, l.parsed, "IN", t)

move_item_session_write(p) ==
    /\ pc[p] = "ms_write"
    /\ UNCHANGED <<ops, clock>>
    /\ IF LockedByOther(p)
       THEN \* "database is locked": rollback, sleep, continue with the next prompt
            /\ Rollback(p)
            /\ loc' = [loc EXCEPT ![p].ret = "locked"]
            /\ Goto(p, "ms_prompt")
       ELSE IF loc[p].item_id = 0 /\ ItemsByBarcode(View(p), loc[p].barcode) # {}
       THEN \* IntegrityError on full_barcode UNIQUE: "except Exception", rollback
            /\ Rollback(p)
            /\ loc' = [loc EXCEPT ![p].ret = "error"]
            /\ Goto(p, "ms_prompt")
       ELSE /\ Write(p, move_session_writes(View(p), loc[p], clock))
            /\ Goto(p, "ms_commit")
            /\ UNCHANGED loc

\* a statement of the scan raises an OperationalError other than "database
\* is locked": the INSERT INTO item_locations, with the item written in the
\* open transaction, or the INSERT INTO item_scans, with the location
\* assignment written too; "Error moving item" is printed and the loop goes
\* on without a rollback
move_item_session_write_fails(p) ==
    /\ pc[p] = "ms_write"
    /\ ~LockedByOther(p)
    /\ ~(loc[p].item_id = 0 /\ ItemsByBarcode(View(p), loc[p].barcode) # {})
    /\ LET l == loc[p]
           d == View(p)
           d1 == IF l.item_id = 0
                 THEN InsertItem(d, l.barcode, join(SubSeq(split(l.barcode), 1, 5)),
                                 l.parsed.item_type, l.parsed.generation,
                                 l.parsed.created_date, "IN")
                 ELSE IF l.current_status = "OUT"
                 THEN UpdateStatusById(d, l.item_id, "IN")
                 ELSE d
           item_id == IF l.item_id = 0 THEN d1.item_seq ELSE l.item_id
           d2 == InsertItemLocation(d1, item_id, l.location, clock)
       IN  \/ IF d1 = d THEN UNCHANGED <<db, lock, tx>> ELSE Write(p, d1)
           \/ Write(p, d2)
    /\ loc' = [loc EXCEPT ![p].ret = "error", ![p].failure = "error"]
    /\ Goto(p, "ms_prompt")
    /\ UNCHANGED <<ops, clock>>

move_item_session_commit(p) ==
    /\ pc[p] = "ms_commit"
    /\ Commit(p)
    /\ loc' = [loc EXCEPT ![p].ret = "true"]
    /\ Goto(p, "ms_prompt")
    /\ UNCHANGED <<ops, clock>>

(***************************************************************************)
(* move_item_to_location: a new connection per attempt, retried on lock    *)
(***************************************************************************)
move_item_to_location_call(p, items, locations) ==
    /\ StartOp(p)
    /\ \E item_barcode \in items, location_barcode \in locations :
          loc' = [loc EXCEPT ![p] =
                    [LocInit EXCEPT !.op = "move_item",
                                    !.barcode = item_barcode,
                                    !.location = to_upper_alphanumeric(location_barcode),
                                    !.snap = db]]
    /\ Goto(p, "mi_select_location")
    /\ UNCHANGED <<db, lock, tx, clock>>

\* SELECT 1 FROM locations WHERE barcode = ?
move_item_to_location_select_location(p) ==
    /\ pc[p] = "mi_select_location"
    /\ IF LocationsByBarcode(db, loc[p].location) = {}
       THEN /\ loc' = [loc EXCEPT ![p].ret = "false"]
            /\ Goto(p, "idle")
       ELSE /\ Goto(p, "mi_select_item")
            /\ UNCHANGED loc
    /\ UNCHANGED <<db, lock, tx, ops, clock>>

\* SELECT id FROM items WHERE full_barcode = ?; an unseen item is parsed and
\* handed to ensure_item_exists
move_item_to_location_select_item(p) ==
    /\ pc[p] = "mi_select_item"
    /\ LET rows == ItemsByBarcode(db, loc[p].barcode)
           parsed == parse_barcode(db, loc[p].barcode, FALSE)
       IN  IF rows # {}
           THEN /\ loc' = [loc EXCEPT ![p].item_id = (CHOOSE i \in rows : TRUE).id]
                /\ Goto(p, "mi_write")
           ELSE IF ~parsed.ok
           THEN /\ loc' = [loc EXCEPT ![p].ret = "false"]
                /\ Goto(p, "idle")
           ELSE /\ loc' = [loc EXCEPT ![p].parsed = parsed]
                /\ Goto(p, "ens_select")
    /\ UNCHANGED <<db, lock, tx, ops, clock>>

\* "Try to get item ID again"
move_item_to_location_select_again(p) ==
    /\ pc[p] = "mi_select_again"
    /\ LET rows == ItemsByBarcode(db, loc[p].barcode)
       IN  IF rows = {}
           THEN /\ loc' = [loc EXCEPT ![p].ret = "false"]
                /\ Goto(p, "idle")
           ELSE /\ loc' = [loc EXCEPT ![p].item_id = (CHOOSE i \in rows : TRUE).id]
                /\ Goto(p, "mi_write")
    /\ UNCHANGED <<db, lock, tx, ops, clock>>

\* a bug: the IN scan written once more for every attempt that found the
\* database locked
move_item_to_location_writes_per_attempt(d, l, t) ==
    LET d1 == InsertItemLocation(d, l.item_id, l.location, t)
        parsed == parse_barcode(d, l.barcode, FALSE)
        d2 == IF parsed.ok THEN InsertScan(d1, l.barcode, parsed, "IN", t) ELSE d1
    IN  IF parsed.ok /\ l.retries > 0
        THEN InsertScan(d2, l.barcode, parsed, "IN", t) ELSE d2

\* the writes of one attempt: the location assignment and, when the barcode
\* parses, the IN scan; items.current_status is not written
move_item_to_location_writes(d, l, t) ==
    LET d1 == InsertItemLocation(d, l.item_id, l.location, t)
        parsed == parse_barcode(d, l.barcode, FALSE)
    IN  IF parsed.ok THEN InsertScan(d1, l.barcode, parsed, "IN", t) ELSE d1

move_item_to_location_write(p) ==
    /\ pc[p] = "mi_write"
    /\ UNCHANGED <<ops, clock>>
    /\ IF LockedByOther(p)
       THEN \* "database is locked": retries += 1, sleep, next attempt
            /\ loc' = [loc EXCEPT ![p].retries = @ + 1,
                                  ![p].ret = IF loc[p].retries + 1 < max_retries
                                             THEN @ ELSE "false"]
            /\ Goto(p, IF loc[p].retries + 1 < max_retries
                       THEN "mi_select_location" ELSE "idle")
            /\ UNCHANGED <<db, lock, tx>>
       ELSE /\ Write(p, move_item_to_location_writes(db, loc[p], clock))
            /\ Goto(p, "mi_commit")
            /\ UNCHANGED loc

move_item_to_location_commit(p) ==
    /\ pc[p] = "mi_commit"
    /\ Commit(p)
    /\ loc' = [loc EXCEPT ![p].ret = "true"]
    /\ Goto(p, "idle")
    /\ UNCHANGED <<ops, clock>>

\* an INSERT of the attempt raises an error other than "database is locked":
\* the first INSERT, with nothing written, or the second, with the location
\* assignment written in the open transaction
move_item_to_location_write_fails(p) ==
    /\ pc[p] = "mi_write"
    /\ ~LockedByOther(p)
    /\ \/ UNCHANGED <<db, lock, tx>>
       \/ Write(p, InsertItemLocation(db, loc[p].item_id, loc[p].location, clock))
    /\ loc' = [loc EXCEPT ![p].failure = "error"]
    /\ Goto(p, "mi_close")
    /\ UNCHANGED <<ops, clock>>

\* "Error assigning item", return False; finally: conn.close()
move_item_to_location_close(p) ==
    /\ pc[p] = "mi_close"
    /\ Rollback(p)
    /\ loc' = [loc EXCEPT ![p].ret = "false"]
    /\ Goto(p, "idle")
    /\ UNCHANGED <<ops, clock>>

(***************************************************************************)
(* get_highest_item_number and create_batch                                *)
(***************************************************************************)
\* the loop over existing_barcodes: six parts, the sixth all digits
RECURSIVE HighestOver(_, _)
HighestOver(barcodes, max_num) ==
    IF barcodes = {} THEN max_num
    ELSE LET barcode == CHOOSE b \in barcodes : TRUE
             parts == split(barcode)
             num == IF Len(parts) = 6 /\ isdigit(parts[6])
                    THEN IntVal(parts[6]) ELSE 0
         IN  HighestOver(barcodes \ {barcode},
                         IF num > max_num THEN num ELSE max_num)

\* a bug: the number of rows taken for the highest number
get_highest_item_number_count(d) == Cardinality(d.items)

get_highest_item_number(d) ==
    HighestOver({i.full_barcode : i \in d.items}, 0)

\* a bug: the location INSERT ahead of the item INSERT, with the lastrowid of
\* the statement before it
RECURSIVE create_batch_items_stale_rowid(_, _, _, _, _)
create_batch_items_stale_rowid(d, l, i, stop, t) ==
    IF i >= stop THEN [d |-> d, ok |-> TRUE]
    ELSE LET full_barcode == l.batch_base \o <<"_">> \o Format04d(i)
         IN  IF ItemsByBarcode(d, full_barcode) # {}
             THEN [d |-> d, ok |-> FALSE]
             ELSE LET d1 == InsertItemLocation(d, d.item_seq, l.location, t)
                      d2 == InsertItem(d1, full_barcode, l.batch_base,
                                       l.parsed.item_type, l.parsed.generation,
                                       l.parsed.created_date, "IN")
                      d3 == InsertScan(d2, full_barcode, l.parsed, "IN", t)
                  IN  create_batch_items_stale_rowid(d3, l, i + 1, stop, t)

\* for i in range(start_num, start_num + quantity): the item, its location
\* assignment and its IN scan; stops at the first full_barcode that exists
\* (IntegrityError) with the rows written so far still in the transaction
RECURSIVE create_batch_items(_, _, _, _, _)
create_batch_items(d, l, i, stop, t) ==
    IF i >= stop THEN [d |-> d, ok |-> TRUE]
    ELSE LET full_barcode == l.batch_base \o <<"_">> \o Format04d(i)
         IN  IF ItemsByBarcode(d, full_barcode) # {}
             THEN [d |-> d, ok |-> FALSE]
             ELSE LET d1 == InsertItem(d, full_barcode, l.batch_base,
                                       l.parsed.item_type, l.parsed.generation,
                                       l.parsed.created_date, "IN")
                      d2 == InsertItemLocation(d1, d1.item_seq, l.location, t)
                      d3 == InsertScan(d2, full_barcode, l.parsed, "IN", t)
                  IN  create_batch_items(d3, l, i + 1, stop, t)

create_batch_writes(d, l, t) ==
    create_batch_items(InsertBatchScan(d, l.batch_base, l.parsed, l.quantity, t),
                       l, l.start_num, l.start_num + l.quantity, t)

\* the location prompt and its validation on a connection of its own
create_batch_location(p, inputs) ==
    /\ StartOp(p)
    /\ \E text \in inputs :
          LET location_barcode == upper(strip(text))
              valid == /\ Len(location_barcode) > 0
                       /\ LocationsByBarcode(db, location_barcode) # {}
          IN  /\ loc' = [loc EXCEPT ![p] =
                    [LocInit EXCEPT !.op = "create_batch",
                                    !.location = location_barcode,
                                    !.ret = IF valid THEN "none" ELSE "invalid",
                                    !.snap = db]]
              /\ Goto(p, IF valid THEN "cb_barcode" ELSE "idle")
    /\ UNCHANGED <<db, lock, tx, clock>>

\* the barcode prompt, parse_barcode, batch_base, get_highest_item_number
create_batch_barcode(p, inputs) ==
    /\ pc[p] = "cb_barcode"
    /\ \E text \in inputs :
          LET barcode_input == strip(text)
              parsed == parse_barcode(db, barcode_input, FALSE)
              parts == split(barcode_input)
              batch_base == IF Len(parts) = 6 THEN join(SubSeq(parts, 1, 5))
                            ELSE barcode_input
              valid == parsed.ok /\ Len(parts) \in {5, 6}
          IN  IF valid
              THEN /\ loc' = [loc EXCEPT ![p].barcode = barcode_input,
                                        ![p].parsed = parsed,
                                        ![p].batch_base = batch_base,
                                        ![p].start_num = get_highest_item_number(db) + 1]
                   /\ Goto(p, "cb_quantity")
              ELSE /\ loc' = [loc EXCEPT ![p].barcode = barcode_input,
                                        ![p].ret = "invalid"]
                   /\ Goto(p, "idle")
    /\ UNCHANGED <<db, lock, tx, ops, clock>>

\* a bug: no "if quantity <= 0" after int()
create_batch_quantity_any_number(p, inputs) ==
    /\ pc[p] = "cb_quantity"
    /\ \E text \in inputs :
          IF IntOk(text)
          THEN /\ loc' = [loc EXCEPT ![p].quantity = IntVal(text)]
               /\ Goto(p, "cb_insert")
          ELSE /\ loc' = [loc EXCEPT ![p].ret = "invalid"]
               /\ Goto(p, "idle")
    /\ UNCHANGED <<db, lock, tx, ops, clock>>

\* the quantity prompt: quantity = int(input), which raises on a text that is
\* no number, then "if quantity <= 0: return"
create_batch_quantity(p, inputs) ==
    /\ pc[p] = "cb_quantity"
    /\ \E text \in inputs :
          IF IntOk(text) /\ IntVal(text) > 0
          THEN /\ loc' = [loc EXCEPT ![p].quantity = IntVal(text)]
               /\ Goto(p, "cb_insert")
          ELSE /\ loc' = [loc EXCEPT ![p].quantity =
                                        IF IntOk(text) THEN IntVal(text) ELSE @,
                                    ![p].ret = "invalid"]
               /\ Goto(p, "idle")
    /\ UNCHANGED <<db, lock, tx, ops, clock>>

\* a bug: the rows written before the IntegrityError committed
create_batch_outcome_commit_always(ok) == "commit"

\* what create_batch does with the transaction after the INSERTs: commit, or
\* "except sqlite3.IntegrityError: conn.rollback()"
create_batch_outcome(ok) == IF ok THEN "commit" ELSE "rollback"

\* the INSERTs of the batch in one transaction
create_batch_insert(p) ==
    /\ pc[p] = "cb_insert"
    /\ UNCHANGED <<ops, clock>>
    /\ IF LockedByOther(p)
       THEN \* OperationalError: "except Exception", rollback
            /\ loc' = [loc EXCEPT ![p].ret = "error"]
            /\ Goto(p, "idle")
            /\ UNCHANGED <<db, lock, tx>>
       ELSE LET w == create_batch_writes(db, loc[p], clock)
            IN  /\ Write(p, w.d)
                /\ loc' = [loc EXCEPT ![p].ret = create_batch_outcome(w.ok)]
                /\ Goto(p, "cb_end")

\* conn.commit(), or conn.rollback() in the except clause
create_batch_end(p) ==
    /\ pc[p] = "cb_end"
    /\ IF loc[p].ret = "commit"
       THEN Commit(p) /\ loc' = [loc EXCEPT ![p].ret = "true"]
       ELSE Rollback(p) /\ loc' = [loc EXCEPT ![p].ret = "already_exists"]
    /\ Goto(p, "idle")
    /\ UNCHANGED <<ops, clock>>

(***************************************************************************)
(* add_notes_session and add_note                                          *)
(***************************************************************************)
NotesOfItem(d, item_id) ==
    {k \in 1..Len(d.notes) : d.notes[k].item_id = item_id}

\* the barcode prompt and "Check if barcode exists"
add_notes_session_scan(p, inputs) ==
    /\ StartOp(p)
    /\ \E text \in inputs :
          LET barcode == strip(text)
              found == ItemsByBarcode(db, barcode) # {}
          IN  /\ loc' = [loc EXCEPT ![p] =
                    [LocInit EXCEPT !.op = "add_note",
                                    !.barcode = barcode,
                                    !.ret = IF found THEN "none" ELSE "not_found",
                                    !.snap = db]]
              /\ Goto(p, IF found THEN "an_select" ELSE "idle")
    /\ UNCHANGED <<db, lock, tx, clock>>

\* add_note called on its own with a barcode
add_note_call(p, inputs) ==
    /\ StartOp(p)
    /\ \E barcode \in inputs :
          /\ loc' = [loc EXCEPT ![p] =
                [LocInit EXCEPT !.op = "add_note_call",
                                !.barcode = barcode,
                                !.snap = db]]
          /\ Goto(p, "an_select")
    /\ UNCHANGED <<db, lock, tx, clock>>

\* a bug: the SELECT of the item id without its WHERE
add_note_item_rows_no_where(d, barcode) == d.items

\* SELECT id FROM items WHERE full_barcode = ?
add_note_item_rows(d, barcode) == ItemsByBarcode(d, barcode)

\* the note prompt; add_note: SELECT id FROM items, SELECT * FROM notes
add_note_select(p, notes) ==
    /\ pc[p] = "an_select"
    /\ \E note \in notes :
          LET rows == add_note_item_rows(db, loc[p].barcode)
          IN  IF rows = {}
              THEN /\ loc' = [loc EXCEPT ![p].note = note, ![p].ret = "false"]
                   /\ Goto(p, "idle")
              ELSE LET item_id == (CHOOSE i \in rows : TRUE).id
                   IN  /\ loc' = [loc EXCEPT ![p].note = note,
                                             ![p].item_id = item_id,
                                             ![p].rowcount =
                                                 Cardinality(NotesOfItem(db, item_id))]
                       /\ Goto(p, "an_write")
    /\ UNCHANGED <<db, lock, tx, ops, clock>>

\* UPDATE notes SET note = ? WHERE item_id = ?, or INSERT INTO notes
add_note_writes(d, l) ==
    IF l.rowcount > 0
    THEN [d EXCEPT !.notes = [k \in 1..Len(@) |->
                                 IF @[k].item_id = l.item_id
                                 THEN [@[k] EXCEPT !.note = l.note] ELSE @[k]]]
    ELSE [d EXCEPT !.notes = Append(@, [item_id |-> l.item_id, note |-> l.note])]

add_note_write(p) ==
    /\ pc[p] = "an_write"
    /\ UNCHANGED <<ops, clock>>
    /\ IF LockedByOther(p)
       THEN /\ loc' = [loc EXCEPT ![p].ret = "false"]
            /\ Goto(p, "idle")
            /\ UNCHANGED <<db, lock, tx>>
       ELSE /\ Write(p, add_note_writes(db, loc[p]))
            /\ Goto(p, "an_commit")
            /\ UNCHANGED loc

add_note_commit(p) ==
    /\ pc[p] = "an_commit"
    /\ Commit(p)
    /\ loc' = [loc EXCEPT ![p].ret = "true"]
    /\ Goto(p, "idle")
    /\ UNCHANGED <<ops, clock>>

(***************************************************************************)
(* delete_all_out_items                                                    *)
(***************************************************************************)
\* filter(str.isalpha, s)
RECURSIVE FilterAlpha(_)
FilterAlpha(s) ==
    IF Len(s) = 0 THEN <<>>
    ELSE IF IsLowerChar(s[1]) \/ IsUpperChar(s[1])
    THEN <<s[1]>> \o FilterAlpha(Tail(s))
    ELSE FilterAlpha(Tail(s))

DELETEALL == <<"D", "E", "L", "E", "T", "E", "A", "L", "L">>

ConfirmInputs ==
    { <<"D", "E", "L", "E", "T", "E", " ", "A", "L", "L">>,
      <<"d", "e", "l", "e", "t", "e", " ", "a", "l", "l">>,
      <<"n", "o">> }

\* SELECT id FROM items WHERE current_status = 'OUT'
OutIds(d) == {i.id : i \in {j \in d.items : j.current_status = "OUT"}}

\* SELECT full_barcode FROM items WHERE current_status = 'OUT'
OutBarcodes(d) ==
    {i.full_barcode : i \in {j \in d.items : j.current_status = "OUT"}}

\* 1. DELETE FROM notes WHERE item_id IN (...)
DeleteNotesOfOut(d) ==
    LET Keep(r) == r.item_id \notin OutIds(d)
    IN  [d EXCEPT !.notes = SelectSeq(@, Keep)]

\* 2. DELETE FROM item_locations WHERE item_id IN (...)
DeleteLocationsOfOut(d) ==
    LET Keep(r) == r.item_id \notin OutIds(d)
    IN  [d EXCEPT !.item_locations = SelectSeq(@, Keep)]

\* a bug: the DELETE on item_scans without its WHERE
DeleteScansOfOut_no_where(d) == [d EXCEPT !.item_scans = <<>>]

\* 3. DELETE FROM item_scans WHERE barcode IN (...)
DeleteScansOfOut(d) ==
    LET Keep(r) == r.barcode \notin OutBarcodes(d)
    IN  [d EXCEPT !.item_scans = SelectSeq(@, Keep)]

\* 4. DELETE FROM items WHERE current_status = 'OUT'
DeleteOutItems(d) ==
    [d EXCEPT !.items = {i \in @ : i.current_status # "OUT"}]

\* a bug: the items deleted first, so the three subqueries find no OUT item
delete_all_out_items_writes_items_first(d) ==
    DeleteScansOfOut(DeleteLocationsOfOut(DeleteNotesOfOut(DeleteOutItems(d))))

\* the four DELETEs in the order the function issues them
delete_all_out_items_writes(d) ==
    DeleteOutItems(DeleteScansOfOut(DeleteLocationsOfOut(DeleteNotesOfOut(d))))

\* the confirmation prompt and SELECT COUNT(*) ... WHERE current_status = 'OUT'
delete_all_out_items_confirm(p, inputs) ==
    /\ StartOp(p)
    /\ \E confirm \in inputs :
          LET confirmed == FilterAlpha(upper(strip(confirm))) = DELETEALL
              out_count == Cardinality(OutIds(db))
          IN  /\ loc' = [loc EXCEPT ![p] =
                    [LocInit EXCEPT !.op = "purge",
                                    !.out_count = IF confirmed THEN out_count ELSE 0,
                                    !.ret = IF ~confirmed THEN "cancelled"
                                            ELSE IF out_count = 0 THEN "nothing"
                                            ELSE "none",
                                    !.snap = db]]
              /\ Goto(p, IF confirmed /\ out_count # 0 THEN "purge_delete" ELSE "idle")
    /\ UNCHANGED <<db, lock, tx, clock>>

delete_all_out_items_delete(p) ==
    /\ pc[p] = "purge_delete"
    /\ UNCHANGED <<ops, clock>>
    /\ IF LockedByOther(p)
       THEN \* OperationalError: "except Exception", rollback
            /\ loc' = [loc EXCEPT ![p].ret = "error"]
            /\ Goto(p, "idle")
            /\ UNCHANGED <<db, lock, tx>>
       ELSE /\ Write(p, delete_all_out_items_writes(db))
            /\ Goto(p, "purge_commit")
            /\ UNCHANGED loc

delete_all_out_items_commit(p) ==
    /\ pc[p] = "purge_commit"
    /\ Commit(p)
    /\ loc' = [loc EXCEPT ![p].ret = "true"]
    /\ Goto(p, "idle")
    /\ UNCHANGED <<ops, clock>>

(***************************************************************************)
(* remove_location                                                         *)
(***************************************************************************)
\* SELECT COUNT(*) FROM item_locations WHERE location_barcode = ?
AssignedTo(d, barcode) ==
    {k \in 1..Len(d.item_locations) : d.item_locations[k].location_barcode = barcode}

\* DELETE FROM locations WHERE barcode = ?
DeleteLocation(d, barcode) ==
    [d EXCEPT !.locations = {l \in @ : l.barcode # barcode}]

\* the prompt, the SELECT of the location and the count of its assignments
remove_location_prompt(p, inputs) ==
    /\ StartOp(p)
    /\ \E text \in inputs :
          LET barcode == upper(strip(text))
              found == LocationsByBarcode(db, barcode)
              count == Cardinality(AssignedTo(db, barcode))
              ret == IF Len(barcode) = 0 THEN "invalid"
                     ELSE IF found = {} THEN "not_found"
                     ELSE IF count > 0 THEN "has_items"
                     ELSE "none"
          IN  /\ loc' = [loc EXCEPT ![p] =
                    [LocInit EXCEPT !.op = "remove_location",
                                    !.location = barcode,
                                    !.rowcount = count,
                                    !.ret = ret,
                                    !.snap = db]]
              /\ Goto(p, IF ret = "none" THEN "rl_delete" ELSE "idle")
    /\ UNCHANGED <<db, lock, tx, clock>>

remove_location_delete(p) ==
    /\ pc[p] = "rl_delete"
    /\ UNCHANGED <<ops, clock>>
    /\ IF LockedByOther(p)
       THEN \* OperationalError: "except Exception", "Error removing location"
            /\ loc' = [loc EXCEPT ![p].ret = "error"]
            /\ Goto(p, "idle")
            /\ UNCHANGED <<db, lock, tx>>
       ELSE /\ Write(p, DeleteLocation(db, loc[p].location))
            /\ Goto(p, "rl_commit")
            /\ UNCHANGED loc

remove_location_commit(p) ==
    /\ pc[p] = "rl_commit"
    /\ Commit(p)
    /\ loc' = [loc EXCEPT ![p].ret = "true"]
    /\ Goto(p, "idle")
    /\ UNCHANGED <<ops, clock>>

(***************************************************************************)
(* remove_item_code                                                        *)
(***************************************************************************)
\* SELECT COUNT(*) FROM items WHERE item_type = ?
ItemsOfType(d, name) == {i \in d.items : i.item_type = name}

\* DELETE FROM item_codes WHERE code = ?
DeleteItemCode(d, code) ==
    [d EXCEPT !.item_codes = {r \in @ : r.code # code}]

\* the prompt and "Check if code exists"
remove_item_code_prompt(p, inputs) ==
    /\ StartOp(p)
    /\ \E text \in inputs :
          LET code == upper(strip(text))
              found == \E r \in db.item_codes : r.code = code
              ret == IF Len(code) = 0 THEN "invalid"
                     ELSE IF ~found THEN "not_found"
                     ELSE "none"
          IN  /\ loc' = [loc EXCEPT ![p] =
                    [LocInit EXCEPT !.op = "remove_item_code",
                                    !.code = code,
                                    !.name = IF found THEN get_item_name(db, code)
                                             ELSE "",
                                    !.ret = ret,
                                    !.snap = db]]
              /\ Goto(p, IF ret = "none" THEN "ric_count" ELSE "idle")
    /\ UNCHANGED <<db, lock, tx, clock>>

\* "Check if code is used in any items"
remove_item_code_count(p) ==
    /\ pc[p] = "ric_count"
    /\ LET count == Cardinality(ItemsOfType(db, loc[p].name))
       IN  /\ loc' = [loc EXCEPT ![p].rowcount = count,
                                 ![p].ret = IF count > 0 THEN "has_items" ELSE @]
           /\ Goto(p, IF count > 0 THEN "idle" ELSE "ric_delete")
    /\ UNCHANGED <<db, lock, tx, ops, clock>>

remove_item_code_delete(p) ==
    /\ pc[p] = "ric_delete"
    /\ UNCHANGED <<ops, clock>>
    /\ IF LockedByOther(p)
       THEN \* OperationalError: "except Exception", "Error removing item code"
            /\ loc' = [loc EXCEPT ![p].ret = "error"]
            /\ Goto(p, "idle")
            /\ UNCHANGED <<db, lock, tx>>
       ELSE /\ Write(p, DeleteItemCode(db, loc[p].code))
            /\ Goto(p, "ric_commit")
            /\ UNCHANGED loc

remove_item_code_commit(p) ==
    /\ pc[p] = "ric_commit"
    /\ Commit(p)
    /\ loc' = [loc EXCEPT ![p].ret = "true"]
    /\ Goto(p, "idle")
    /\ UNCHANGED <<ops, clock>>

(***************************************************************************)
(* generate_detailed_report                                                *)
(***************************************************************************)
\* a LEFT JOIN that finds no row gives one row of NULLs, position 0 here
OrNull(positions) == IF positions = {} THEN {0} ELSE positions

\* item_scans s ON s.barcode = i.full_barcode AND s.scan_time = latest.max_time,
\* latest being MAX(scan_time) ... GROUP BY barcode
LatestScans(d, barcode) ==
    LET of == {k \in 1..Len(d.item_scans) : d.item_scans[k].barcode = barcode}
    IN  {k \in of : \A j \in of : d.item_scans[j].scan_time <= d.item_scans[k].scan_time}

\* item_locations il JOIN locations l ON il.location_barcode = l.barcode
\* WHERE il.timestamp = (SELECT MAX(timestamp) ... WHERE item_id = il.item_id)
LatestLocations(d, item_id) ==
    LET of == {k \in 1..Len(d.item_locations) : d.item_locations[k].item_id = item_id}
    IN  {k \in of :
            /\ \A j \in of : d.item_locations[j].timestamp <= d.item_locations[k].timestamp
            /\ LocationsByBarcode(d, d.item_locations[k].location_barcode) # {}}

\* l.location_name of a joined row
JoinedLocationName(d, k) ==
    (CHOOSE l \in d.locations :
        l.barcode = d.item_locations[k].location_barcode).location_name

\* the rows of the query: for each item the joined rows of item_scans, notes
\* and item_locations, given by their positions, that pass the WHERE clause;
\* a filter that is empty is left out, and so is the location filter when
\* the location is not found
generate_detailed_report(d, item_type, generation, location_barcode, date) ==
    LET clean == to_upper_alphanumeric(location_barcode)
        found == LocationsByBarcode(d, clean)
        by_location == Len(location_barcode) > 0 /\ Len(clean) > 0 /\ found # {}
        loc_display == (CHOOSE l \in found : TRUE).location_name
        joined == UNION { { [item |-> i, scan |-> s, note |-> n, location |-> l] :
                              s \in OrNull(LatestScans(d, i.full_barcode)),
                              n \in OrNull(NotesOfItem(d, i.id)),
                              l \in OrNull(LatestLocations(d, i.id)) } :
                          i \in d.items }
    IN  { r \in joined :
            /\ item_type # "" => r.item.item_type = item_type
            /\ Len(generation) > 0 => r.item.generation = generation
            /\ by_location =>
                  r.location # 0 /\ JoinedLocationName(d, r.location) = loc_display
            /\ Len(date) > 0 => r.item.created_date = date }

\* choice 5 of main: the four prompts, then the report
detailed_report(p, types, generations, locations, dates) ==
    /\ StartOp(p)
    /\ \E i_type \in types, gen \in generations, lc \in locations, dt \in dates :
          loc' = [loc EXCEPT ![p] =
                    [LocInit EXCEPT
                        !.op = "report",
                        !.filter = [item_type |-> i_type, generation |-> strip(gen),
                                    location_barcode |-> strip(lc), date |-> strip(dt)],
                        !.results = generate_detailed_report(db, i_type, strip(gen),
                                                             strip(lc), strip(dt)),
                        !.ret = "true",
                        !.snap = db]]
    /\ Goto(p, "idle")
    /\ UNCHANGED <<db, lock, tx, clock>>

\* a second passes: CURRENT_TIMESTAMP has the resolution of one second
Tick ==
    /\ clock < MaxClock
    /\ clock' = clock + 1
    /\ UNCHANGED <<db, lock, tx, pc, loc, ops>>

(***************************************************************************)
(* get_current_location                                                    *)
(***************************************************************************)
\* the rows that "ORDER BY il.timestamp DESC LIMIT 1" can give: the joined
\* rows of the item with the largest timestamp; SQL leaves open which of
\* several rows of equal timestamp comes first
get_current_location(d, item_barcode) ==
    LET of == {k \in 1..Len(d.item_locations) :
                  /\ LocationsByBarcode(d, d.item_locations[k].location_barcode) # {}
                  /\ \E i \in ItemsByBarcode(d, item_barcode) :
                        d.item_locations[k].item_id = i.id}
    IN  {k \in of :
            \A j \in of : d.item_locations[j].timestamp <= d.item_locations[k].timestamp}

\* location = get_current_location(item_barcode); results holds the name,
\* or nothing for "No location"
get_current_location_call(p, inputs) ==
    /\ StartOp(p)
    /\ \E text \in inputs :
          LET rows == get_current_location(db, text)
          IN  \E k \in OrNull(rows) :
                 loc' = [loc EXCEPT ![p] =
                    [LocInit EXCEPT
                        !.op = "current_location",
                        !.barcode = text,
                        !.results = IF k = 0 THEN {}
                                    ELSE {JoinedLocationName(db, k)},
                        !.ret = "true",
                        !.snap = db]]
    /\ Goto(p, "idle")
    /\ UNCHANGED <<db, lock, tx, clock>>

(***************************************************************************)
(* generate_inventory_report                                               *)
(***************************************************************************)
\* the items of one group of GROUP BY item_type, generation
ItemsOfGroup(d, item_type, generation) ==
    {i \in d.items : i.item_type = item_type /\ i.generation = generation}

\* a bug: COUNT(*) taken over the IN items only
generate_inventory_report_total_in(d) ==
    { [ item_type  |-> i.item_type,
        generation |-> i.generation,
        total      |-> Cardinality({j \in ItemsOfGroup(d, i.item_type, i.generation) :
                                       j.current_status = "IN"}),
        in_stock   |-> Cardinality({j \in ItemsOfGroup(d, i.item_type, i.generation) :
                                       j.current_status = "IN"}),
        out        |-> Cardinality({j \in ItemsOfGroup(d, i.item_type, i.generation) :
                                       j.current_status = "OUT"}) ] : i \in d.items }

\* SELECT item_type, generation, COUNT(*), SUM(CASE WHEN current_status = 'IN'
\* ...), SUM(CASE WHEN current_status = 'OUT' ...) FROM items GROUP BY
\* item_type, generation
generate_inventory_report(d) ==
    { [ item_type  |-> i.item_type,
        generation |-> i.generation,
        total      |-> Cardinality(ItemsOfGroup(d, i.item_type, i.generation)),
        in_stock   |-> Cardinality({j \in ItemsOfGroup(d, i.item_type, i.generation) :
                                       j.current_status = "IN"}),
        out        |-> Cardinality({j \in ItemsOfGroup(d, i.item_type, i.generation) :
                                       j.current_status = "OUT"}) ] : i \in d.items }

\* results = c.fetchall() on a connection of its own, closed after printing
generate_inventory_report_call(p) ==
    /\ StartOp(p)
    /\ loc' = [loc EXCEPT ![p] =
                  [LocInit EXCEPT !.op = "inventory",
                                  !.results = generate_inventory_report(db),
                                  !.ret = "true",
                                  !.snap = db]]
    /\ Goto(p, "idle")
    /\ UNCHANGED <<db, lock, tx, clock>>

(***************************************************************************)
(* parse_barcode called on its own                                         *)
(***************************************************************************)
\* year fields: below, at and above 100, signed, blank-padded, no number, empty
YearTexts ==
    { <<"0">>, <<"2", "3">>, <<"9", "9">>, <<"1", "0", "0">>,
      <<"2", "0", "2", "3">>, <<"-", "5">>, <<" ", "7">>, <<"Y", "Y">>, <<>> }

\* texts of MinFields to MaxFields fields with a registered or an unregistered
\* item code and one of the year fields
MinFields == 4

MaxFields == 7

BarcodeTexts ==
    { join(SubSeq(<<code, <<"0", "1">>, <<"0", "2">>, year, <<"G", "1">>,
                    <<"0", "0", "0", "1">>, <<"X">>>>, 1, n)) :
        code \in {<<"P", "I", "P", "I">>, <<"Z", "Z", "Z", "Z">>},
        year \in YearTexts, n \in MinFields..MaxFields }

\* parsed = parse_barcode(barcode, is_batch)
parse_barcode_call(p, is_batch) ==
    /\ pc[p] = "parse"
    /\ loc' = [loc EXCEPT ![p].op = IF is_batch THEN "parse_batch" ELSE "parse_item",
                          ![p].parsed = parse_barcode(db, loc[p].barcode, is_batch),
                          ![p].snap = db]
    /\ Goto(p, "idle")
    /\ UNCHANGED <<db, lock, tx, ops, clock>>

(***************************************************************************)
(* Operations, each with the texts typed or scanned into it                *)
(***************************************************************************)
EnsureItem(p) ==
    \/ ensure_item_exists_select(p)
    \/ ensure_item_exists_insert(p)
    \/ ensure_item_exists_commit(p)

CheckOut(p, inputs) ==
    \/ check_out_scan(p, inputs)
    \/ update_item_status_update(p)
    \/ update_item_status_commit(p)
    \/ log_scan_insert(p)
    \/ log_scan_commit(p)

RegisterLocation(p, inputs, names) ==
    \/ register_location_session(p, inputs, names)
    \/ register_location_insert(p)
    \/ register_location_commit(p)

MoveSession(p, locations, inputs) ==
    \/ move_item_session_start(p, locations)
    \/ move_item_session_finish(p)
    \/ move_item_session_scan(p, inputs)
    \/ move_item_session_select(p)
    \/ move_item_session_write(p)
    \/ move_item_session_commit(p)

MoveItem(p, items, locations) ==
    \/ move_item_to_location_call(p, items, locations)
    \/ move_item_to_location_select_location(p)
    \/ move_item_to_location_select_item(p)
    \/ move_item_to_location_select_again(p)
    \/ move_item_to_location_write(p)
    \/ move_item_to_location_commit(p)

CreateBatch(p, locations, inputs, quantities) ==
    \/ create_batch_location(p, locations)
    \/ create_batch_barcode(p, inputs)
    \/ create_batch_quantity(p, quantities)
    \/ create_batch_insert(p)
    \/ create_batch_end(p)

AddNote(p, inputs, notes) ==
    \/ add_notes_session_scan(p, inputs)
    \/ add_note_select(p, notes)
    \/ add_note_write(p)
    \/ add_note_commit(p)

Purge(p, inputs) ==
    \/ delete_all_out_items_confirm(p, inputs)
    \/ delete_all_out_items_delete(p)
    \/ delete_all_out_items_commit(p)

RemoveLocation(p, inputs) ==
    \/ remove_location_prompt(p, inputs)
    \/ remove_location_delete(p)
    \/ remove_location_commit(p)

RemoveItemCode(p, inputs) ==
    \/ remove_item_code_prompt(p, inputs)
    \/ remove_item_code_count(p)
    \/ remove_item_code_delete(p)
    \/ remove_item_code_commit(p)

\* the attempts of log_scan and move_item_to_location that raise an error
\* other than "database is locked"
FailedAttempt(p) ==
    \/ log_scan_insert_fails(p)
    \/ move_item_to_location_write_fails(p)
    \/ move_item_to_location_close(p)

QuantityInputs == {NatText(q) : q \in 0..MaxQuantity} \cup {<<"-", "1">>, <<"x">>}

(***************************************************************************)
(* Specifications                                                          *)
(***************************************************************************)
\* one operator at one terminal: no other process, so no lock contention
Next ==
    \E p \in {1} :
        \/ ensure_call(p, {ItemA1, BaseA, BadCount})
        \/ EnsureItem(p)
        \/ CheckOut(p, {ItemA1, ItemA2, ItemAX, BadYear})
        \/ RegisterLocation(p, {LocLower, LocT2, <<"T", "-", "1">>}, {NameTent})
        \/ MoveSession(p, {LocT1, LocT2, ItemA1}, {ItemA1, ItemA2, BadCount})
        \/ MoveItem(p, {ItemA1, BadCount}, {LocLower, LocT2})
        \/ CreateBatch(p, {LocLower, LocT2}, {BaseA, BaseB, ItemA1, BadCount},
                       QuantityInputs)
        \/ AddNote(p, {ItemA1, ItemB1}, {"dry", "wet"})
        \/ add_note_call(p, {ItemA1, ItemB1})
        \/ RemoveLocation(p, {LocLower, LocT2})
        \/ RemoveItemCode(p, {CodeLower})
        \/ Purge(p, ConfirmInputs)

Spec == Init /\ [][Next]_vars

\* two operators at two terminals creating batches, and scanning an item of
\* the batch before it is created
BatchOps == 2

InitBatch == InitWith([p \in AllProcs |-> BatchOps])

BatchQuantities == {NatText(q) : q \in 1..MaxQuantity}

NextBatch ==
    \E p \in AllProcs :
        \/ RegisterLocation(p, {LocLower}, {NameTent})
        \/ CreateBatch(p, {LocLower}, {BaseA, BaseB}, BatchQuantities)
        \/ ensure_call(p, {ItemA2})
        \/ EnsureItem(p)

SpecBatch == InitBatch /\ [][NextBatch]_vars

\* two operators at two terminals scanning items in and out
ScanOps == 2

InitScan == InitWith([p \in AllProcs |-> ScanOps])

NextScan ==
    \E p \in AllProcs :
        \/ ensure_call(p, {ItemA1})
        \/ EnsureItem(p)
        \/ CheckOut(p, {ItemA1, ItemA2})

SpecScan == InitScan /\ [][NextScan]_vars

\* two operators at two terminals: the first creates, annotates and checks
\* out items while the second deletes the OUT items
WorkOps == 4

PurgeOps == 2

InitPurge == InitWith([p \in AllProcs |-> IF p = 1 THEN WorkOps ELSE PurgeOps])

NextPurge ==
    \/ RegisterLocation(1, {LocLower}, {NameTent})
    \/ CreateBatch(1, {LocLower}, {BaseA}, {NatText(MaxQuantity)})
    \/ EnsureItem(1)
    \/ CheckOut(1, {ItemA1})
    \/ AddNote(1, {ItemA1, ItemA2}, {"dry"})
    \/ Purge(2, {<<"D", "E", "L", "E", "T", "E", " ", "A", "L", "L">>})

SpecPurge == InitPurge /\ [][NextPurge]_vars

\* two operators at two terminals: the first checks out, annotates and moves
\* items while the second deletes the OUT items
NextRace ==
    \/ EnsureItem(1)
    \/ CheckOut(1, {ItemA1, ItemA2})
    \/ AddNote(1, {ItemA1}, {"dry"})
    \/ RegisterLocation(1, {LocLower}, {NameTent})
    \/ MoveSession(1, {LocT1}, {ItemA1})
    \/ Purge(2, {<<"D", "E", "L", "E", "T", "E", " ", "A", "L", "L">>})

SpecRace == InitPurge /\ [][NextRace]_vars

\* two operators at two terminals writing notes on the same item
NextNote ==
    \E p \in AllProcs :
        \/ ensure_call(p, {ItemA1})
        \/ EnsureItem(p)
        \/ add_note_call(p, {ItemA1})
        \/ add_note_select(p, {"dry", "wet"})
        \/ add_note_write(p)
        \/ add_note_commit(p)

SpecNote == InitScan /\ [][NextNote]_vars

\* two operators at two terminals: the first registers a location and puts
\* items there while the second removes locations
NextLocation ==
    \/ RegisterLocation(1, {LocLower}, {NameTent})
    \/ MoveSession(1, {LocT1}, {ItemA1})
    \/ CreateBatch(1, {LocLower}, {BaseA}, {NatText(1)})
    \/ RemoveLocation(2, {LocLower})

SpecLocation == InitPurge /\ [][NextLocation]_vars

\* two operators at two terminals: the first registers a location, checks an
\* item out and moves it there, the second scans another item and moves it
\* to a location that is not registered
NextRetry ==
    \/ RegisterLocation(1, {LocLower}, {NameTent})
    \/ CheckOut(1, {ItemA1})
    \/ ensure_call(2, {ItemA2})
    \/ \E p \in AllProcs :
          \/ EnsureItem(p)
          \/ MoveItem(p, IF p = 1 THEN {ItemA1, ItemB1} ELSE {ItemA2},
                         IF p = 1 THEN {LocLower} ELSE {LocT2})

SpecRetry == InitPurge /\ [][NextRetry]_vars

\* one operator at one terminal, with statements that raise errors other than
\* "database is locked"
NextFault ==
    \E p \in {1} :
        \/ RegisterLocation(p, {LocLower}, {NameTent})
        \/ EnsureItem(p)
        \/ CheckOut(p, {ItemA1})
        \/ MoveItem(p, {ItemA1, ItemA2}, {LocLower})
        \/ FailedAttempt(p)

SpecFault == Init /\ [][NextFault]_vars

\* two operators at two terminals creating the same item in every way there
\* is: the first by create_batch and in a move session, the second by a scan
NextItems ==
    \/ RegisterLocation(1, {LocLower}, {NameTent})
    \/ CreateBatch(1, {LocLower}, {BaseA}, {NatText(1)})
    \/ MoveSession(1, {LocT1}, {ItemA1})
    \/ ensure_call(2, {ItemA1})
    \/ EnsureItem(2)
    \/ CheckOut(2, {ItemA1})

SpecItems == InitPurge /\ [][NextItems]_vars

\* one operator scanning an item out and into a location, annotating it and
\* asking for the detailed report, while seconds pass or do not
NextReport ==
    \/ EnsureItem(1)
    \/ CheckOut(1, {ItemA1})
    \/ RegisterLocation(1, {LocLower}, {NameTent})
    \/ MoveSession(1, {LocT1}, {ItemA1})
    \/ AddNote(1, {ItemA1}, {"dry"})
    \/ detailed_report(1, {"", "Pio Pino", "Unknown"}, {<<>>, <<"G", "1">>},
                        {<<>>, LocLower, LocT2}, {<<>>})
    \/ Tick

SpecReport == Init /\ [][NextReport]_vars

\* one operator in move sessions in which a statement can fail with an error
\* other than a busy database
NextSession ==
    \/ RegisterLocation(1, {LocLower}, {NameTent})
    \/ CheckOut(1, {ItemA1})
    \/ EnsureItem(1)
    \/ MoveSession(1, {LocT1}, {ItemA1, ItemA2})
    \/ move_item_session_write_fails(1)

SpecSession == Init /\ [][NextSession]_vars

\* two shifts one after the other: the first operator registers a location
\* and creates a batch; when they have left, the second checks items out,
\* deletes the OUT items and creates a batch
ReallocOps == 3

InitRealloc == InitWith([p \in AllProcs |-> IF p = 1 THEN BatchOps ELSE 0])

\* the first operator has left; the second starts, some time later
ShiftChange ==
    /\ pc[1] = "idle" /\ ops[1] = 0
    /\ clock = 0
    /\ clock' = clock + 1
    /\ ops' = [ops EXCEPT ![2] = ReallocOps]
    /\ UNCHANGED <<db, lock, tx, pc, loc>>

NextRealloc ==
    \/ RegisterLocation(1, {LocLower}, {NameTent})
    \/ CreateBatch(1, {LocLower}, {BaseA}, BatchQuantities)
    \/ ShiftChange
    \/ CheckOut(2, {ItemA1, ItemA2})
    \/ EnsureItem(2)
    \/ Purge(2, ConfirmInputs)
    \/ CreateBatch(2, {LocLower}, {BaseA, BaseB}, BatchQuantities)

SpecRealloc == InitRealloc /\ [][NextRealloc]_vars

\* one operator scanning items of two types and two generations, checking
\* some out, deleting the OUT items and looking at the inventory
ItemG2 ==
    <<"P", "I", "P", "I", "_", "0", "1", "_", "0", "2", "_", "2", "3", "_", "G", "2",
      "_", "0", "0", "0", "3">>

NextStock ==
    \/ ensure_call(1, {ItemA2, ItemB1, ItemG2})
    \/ EnsureItem(1)
    \/ CheckOut(1, {ItemA1, ItemA2})
    \/ Purge(1, ConfirmInputs)
    \/ generate_inventory_report_call(1)

SpecStock == Init /\ [][NextStock]_vars

\* two operators at two terminals: the first in move sessions in which a
\* statement can fail, the second checking items out
NextBlock ==
    \/ RegisterLocation(1, {LocLower}, {NameTent})
    \/ MoveSession(1, {LocT1}, {ItemA1})
    \/ move_item_session_write_fails(1)
    \/ CheckOut(2, {ItemA2})
    \/ EnsureItem(2)

SpecBlock == InitPurge /\ [][NextBlock]_vars

\* one operator registering two locations, moving an item to the one in a
\* move session and to the other by move_item_to_location, and asking where
\* it is, while seconds pass or do not
WhereOps == 6

InitWhere == InitWith([p \in AllProcs |-> IF p = 1 THEN WhereOps ELSE 0])

NextWhere ==
    \/ RegisterLocation(1, {LocLower}, {NameTent})
    \/ RegisterLocation(1, {LocT2}, {NameShelf})
    \/ MoveSession(1, {LocT1}, {ItemA1})
    \/ EnsureItem(1)
    \/ MoveItem(1, {ItemA1}, {LocT2})
    \/ get_current_location_call(1, {ItemA1})
    \/ Tick

SpecWhere == InitWhere /\ [][NextWhere]_vars

\* parse_barcode as a function of its arguments: a text and is_batch
InitDecode ==
    /\ db = init_database
    /\ lock = 0
    /\ tx = [p \in AllProcs |-> <<>>]
    /\ pc = [p \in AllProcs |-> IF p = 1 THEN "parse" ELSE "idle"]
    /\ \E text \in BarcodeTexts :
          loc = [p \in AllProcs |->
                    IF p = 1 THEN [LocInit EXCEPT !.barcode = text] ELSE LocInit]
    /\ ops = [p \in AllProcs |-> 0]
    /\ clock = 0

NextDecode ==
    \/ parse_barcode_call(1, TRUE)
    \/ parse_barcode_call(1, FALSE)

SpecDecode == InitDecode /\ [][NextDecode]_vars

\* two operators at two terminals: the first creates items of type PIPI by a
\* scan, in a move session and by create_batch, the second removes item codes
NextCodes ==
    \/ ensure_call(1, {ItemA1})
    \/ EnsureItem(1)
    \/ RegisterLocation(1, {LocLower}, {NameTent})
    \/ MoveSession(1, {LocT1}, {ItemA2})
    \/ CreateBatch(1, {LocLower}, {BaseA}, {NatText(1)})
    \/ RemoveItemCode(2, {CodeLower, CodeB})

SpecCodes == InitPurge /\ [][NextCodes]_vars

(***************************************************************************)
(* Properties                                                              *)
(***************************************************************************)
\* rows of table d.items with this full_barcode
RowsOf(d, barcode) == {i \in d.items : i.full_barcode = barcode}

\* the rows a sequence table gained from before to after, when it only grew
Gained(before, after) == SubSeq(after, Len(before) + 1, Len(after))

Grew(before, after) ==
    Len(after) >= Len(before) /\ SubSeq(after, 1, Len(before)) = before

\* process p is back at a prompt with operation op finished
Finished(p, op) == pc[p] \in {"idle", "ms_prompt"} /\ loc[p].op = op

\* the largest number in a sixth field, over the barcodes with six fields whose
\* sixth field is a number; 0 when there is none
NumberedSuffixes(d) ==
    { IntVal(split(i.full_barcode)[6]) :
        i \in {j \in d.items : /\ Len(split(j.full_barcode)) = 6
                               /\ isdigit(split(j.full_barcode)[6])} }

MaxSuffix(d) ==
    IF NumberedSuffixes(d) = {} THEN 0
    ELSE CHOOSE m \in NumberedSuffixes(d) : \A n \in NumberedSuffixes(d) : n <= m

\* C3: with one operator at work, create_batch starts at 1 + the largest
\* numeric sixth field of the existing items (1 when no item has one; barcodes
\* of five fields and sixth fields that are no number do not count), and a
\* batch that commits adds exactly the items numbered start .. start+q-1,
\* each the batch prefix followed by its number.
C3_SequentialAllocation ==
    \A p \in {1} :
        Finished(p, "create_batch") /\ loc[p].ret = "true" =>
            LET l == loc[p]
                new == db.items \ l.snap.items
            IN  /\ l.start_num = 1 + MaxSuffix(l.snap)
                /\ l.snap.items \subseteq db.items
                /\ Cardinality(new) = l.quantity
                /\ \A i \in new :
                      /\ Len(split(i.full_barcode)) = 6
                      /\ join(SubSeq(split(i.full_barcode), 1, 5)) = l.batch_base
                      /\ isdigit(split(i.full_barcode)[6])
                /\ {IntVal(split(i.full_barcode)[6]) : i \in new}
                      = l.start_num .. (l.start_num + l.quantity - 1)

\* a batch of two created after an item numbered 0002 and one whose sixth
\* field is no number: it starts at 3
C3_Witness ==
    /\ Finished(1, "create_batch") /\ loc[1].ret = "true"
    /\ loc[1].quantity = 2 /\ loc[1].start_num = 3
    /\ RowsOf(loc[1].snap, ItemAX) # {}

\* C4: with one operator at work, ensure_item_exists on a barcode that parses
\* returns True and leaves exactly one row with that full_barcode; when the
\* row was there before the call the database is unchanged (the status is not
\* set back to IN), otherwise the one new row is the only change.
C4_EnsureIdempotent ==
    \A p \in {1} :
        Finished(p, "ensure") /\ loc[p].parsed.ok =>
            LET l == loc[p]
            IN  /\ l.ens_ret = "true"
                /\ Cardinality(RowsOf(db, l.barcode)) = 1
                /\ RowsOf(l.snap, l.barcode) # {} => db = l.snap
                /\ RowsOf(l.snap, l.barcode) = {} =>
                      /\ db.items = l.snap.items \cup RowsOf(db, l.barcode)
                      /\ [db EXCEPT !.items = {}, !.item_seq = 0]
                            = [l.snap EXCEPT !.items = {}, !.item_seq = 0]

\* a second call on an item that has been checked out in between
C4_Witness ==
    /\ Finished(1, "ensure") /\ loc[1].ens_ret = "true"
    /\ \E i \in RowsOf(db, loc[1].barcode) : i.current_status = "OUT"
    /\ db = loc[1].snap

\* C6: every finished move of an item that was OUT to a registered location
\* leaves the item IN and appends exactly one location assignment to that
\* location and exactly one IN scan, by the move session and by
\* move_item_to_location alike.
C6_MoveOfOutItem ==
    \A p \in {1} :
        /\ Finished(p, "move_session") \/ Finished(p, "move_item")
        /\ loc[p].ret = "true"
        /\ \E i \in RowsOf(loc[p].snap, loc[p].barcode) : i.current_status = "OUT"
        => LET l == loc[p]
           IN  /\ \A i \in RowsOf(db, l.barcode) : i.current_status = "IN"
               /\ RowsOf(db, l.barcode) # {}
               /\ Grew(l.snap.item_locations, db.item_locations)
               /\ Len(Gained(l.snap.item_locations, db.item_locations)) = 1
               /\ db.item_locations[Len(db.item_locations)].location_barcode = l.location
               /\ Grew(l.snap.item_scans, db.item_scans)
               /\ Len(Gained(l.snap.item_scans, db.item_scans)) = 1
               /\ db.item_scans[Len(db.item_scans)].status = "IN"
               /\ db.item_scans[Len(db.item_scans)].barcode = l.barcode

\* C8: with one operator at work, a check-out scan of a barcode that parses
\* ends with exactly one item of that barcode, its status OUT, and one more
\* scan row, for that barcode with status OUT; every other item, the other
\* columns of the item, and all other tables are as before.
C8_CheckOutAlone ==
    \A p \in {1} :
        Finished(p, "checkout") /\ loc[p].parsed.ok =>
            LET l == loc[p]
                others(d) == {i \in d.items : i.full_barcode # l.barcode}
            IN  /\ l.ret = "true"
                /\ Cardinality(RowsOf(db, l.barcode)) = 1
                /\ \A i \in RowsOf(db, l.barcode) :
                      /\ i.current_status = "OUT"
                      /\ \A j \in RowsOf(l.snap, l.barcode) :
                            i = [j EXCEPT !.current_status = "OUT"]
                /\ others(db) = others(l.snap)
                /\ Grew(l.snap.item_scans, db.item_scans)
                /\ Len(Gained(l.snap.item_scans, db.item_scans)) = 1
                /\ db.item_scans[Len(db.item_scans)].barcode = l.barcode
                /\ db.item_scans[Len(db.item_scans)].status = "OUT"
                /\ db.notes = l.snap.notes
                /\ db.item_locations = l.snap.item_locations
                /\ db.batch_scans = l.snap.batch_scans
                /\ db.locations = l.snap.locations
                /\ db.item_codes = l.snap.item_codes

\* a check-out of an item of a batch, which was IN at a location, beside the
\* other item of the batch
C8_Witness ==
    /\ Finished(1, "checkout") /\ loc[1].ret = "true"
    /\ \E i \in RowsOf(loc[1].snap, loc[1].barcode) : i.current_status = "IN"
    /\ Len(db.item_locations) = 2
    /\ Cardinality(db.items) = 2

\* the items that have a location assignment
WithLocation(d) ==
    {i \in d.items :
        \E k \in 1..Len(d.item_locations) : d.item_locations[k].item_id = i.id}

\* C1: under every interleaving of the create_batch calls of two processes,
\* with equal or different batch prefixes, no two items created by
\* create_batch carry the same numeric suffix.  (Where only create_batch
\* assigns locations, its items are the items with a location assignment.)
C1_DisjointSuffixes ==
    \A i, j \in WithLocation(db) :
        i # j => IntVal(split(i.full_barcode)[6]) # IntVal(split(j.full_barcode)[6])

\* after is before plus one whole batch of call l: its batch record, its
\* quantity items, one location assignment and one IN scan for each
WholeBatch(l, before, after) ==
    LET new == after.items \ before.items
        locs == Gained(before.item_locations, after.item_locations)
        scans == Gained(before.item_scans, after.item_scans)
        recs == Gained(before.batch_scans, after.batch_scans)
    IN  /\ before.items \subseteq after.items
        /\ Cardinality(new) = l.quantity
        /\ {i.full_barcode : i \in new} =
              { l.batch_base \o <<"_">> \o Format04d(n) :
                  n \in l.start_num .. (l.start_num + l.quantity - 1) }
        /\ \A i \in new : i.current_status = "IN" /\ i.batch_barcode = l.batch_base
        /\ Grew(before.batch_scans, after.batch_scans)
        /\ Len(recs) = 1
        /\ recs[1].batch_barcode = l.batch_base /\ recs[1].quantity = l.quantity
        /\ Grew(before.item_locations, after.item_locations)
        /\ Len(locs) = l.quantity
        /\ {locs[k].item_id : k \in 1..Len(locs)} = {i.id : i \in new}
        /\ \A k \in 1..Len(locs) : locs[k].location_barcode = l.location
        /\ Grew(before.item_scans, after.item_scans)
        /\ Len(scans) = l.quantity
        /\ {scans[k].barcode : k \in 1..Len(scans)} = {i.full_barcode : i \in new}
        /\ \A k \in 1..Len(scans) : scans[k].status = "IN"
        /\ after.notes = before.notes
        /\ after.locations = before.locations
        /\ after.item_codes = before.item_codes

\* C2: create_batch is all or nothing.  Every step of a create_batch call
\* leaves the committed database as it was, except the step that ends a call
\* that succeeds, which adds the whole batch at once: the batch record, all
\* quantity items, their location assignments and their scans.  A call that
\* fails, on the k-th item or otherwise, commits nothing.
C2_BatchAllOrNothing ==
    [][\A p \in AllProcs :
          /\ loc[p].op = "create_batch"
          /\ pc[p] \in {"cb_barcode", "cb_quantity", "cb_insert", "cb_end"}
          /\ pc'[p] # pc[p]
          => IF pc'[p] = "idle" /\ loc'[p].ret = "true"
             THEN WholeBatch(loc[p], db, db')
             ELSE db' = db]_vars

\* a batch of two that failed on its second item, which the other process had
\* scanned in after the batch's numbers were taken: its first item is absent
C2_Witness ==
    \E p \in AllProcs :
        /\ Finished(p, "create_batch") /\ loc[p].ret = "already_exists"
        /\ loc[p].quantity = 2
        /\ RowsOf(db, loc[p].batch_base \o <<"_">> \o Format04d(loc[p].start_num + 1)) # {}
        /\ RowsOf(db, loc[p].batch_base \o <<"_">> \o Format04d(loc[p].start_num)) = {}
        /\ db.batch_scans = <<>>

\* C5: when two processes have called ensure_item_exists for the same barcode,
\* which neither found in the database when its call began, then after both
\* calls exactly one row has that barcode and both calls returned True.
C5_ConcurrentEnsure ==
    \A p, q \in AllProcs :
        /\ p # q
        /\ Finished(p, "ensure") /\ Finished(q, "ensure")
        /\ loc[p].parsed.ok /\ loc[p].barcode = loc[q].barcode
        /\ RowsOf(loc[p].snap, loc[p].barcode) = {}
        /\ RowsOf(loc[q].snap, loc[q].barcode) = {}
        => /\ Cardinality(RowsOf(db, loc[p].barcode)) = 1
           /\ loc[p].ens_ret = "true"
           /\ loc[q].ens_ret = "true"

\* the barcodes that have a scan with this status
ScannedAs(d, status) ==
    {d.item_scans[k].barcode :
        k \in {n \in 1..Len(d.item_scans) : d.item_scans[n].status = status}}

\* C7: the status change of a check-out and its OUT scan are committed as one
\* unit.  Where check-outs are the only status changes, in every committed
\* state an item is OUT exactly when an OUT scan of its barcode is logged: no
\* status changed without its scan, no OUT scan logged while the status
\* update did not take effect.
C7_StatusWithScan ==
    \A i \in db.items :
        i.current_status = "OUT" <=> i.full_barcode \in ScannedAs(db, "OUT")

OutItems(d) == {i \in d.items : i.current_status = "OUT"}

InItems(d) == {i \in d.items : i.current_status = "IN"}

\* after is before without its OUT items and without every note, location
\* assignment and scan of theirs
OutItemsRemoved(before, after) ==
    LET ids == {i.id : i \in OutItems(before)}
        barcodes == {i.full_barcode : i \in OutItems(before)}
    IN  /\ OutItems(before) # {}
        /\ OutItems(after) = {}
        /\ after.items \subseteq before.items
        /\ \A k \in 1..Len(after.notes) : after.notes[k].item_id \notin ids
        /\ \A k \in 1..Len(after.item_locations) :
              after.item_locations[k].item_id \notin ids
        /\ \A k \in 1..Len(after.item_scans) :
              after.item_scans[k].barcode \notin barcodes

\* C9: a confirmed delete_all_out_items removes in one transaction every OUT
\* item with all its notes, location assignments and the scans of its barcode.
\* Its commit takes the committed database from a state with OUT items to one
\* with none of them and none of their rows, and no other step of the call
\* changes the committed database, so no part of the deletion is ever seen.
C9_PurgeInOneTransaction ==
    [][\A p \in AllProcs :
          /\ loc[p].op = "purge"
          /\ pc[p] \in {"purge_delete", "purge_commit"}
          /\ pc'[p] # pc[p]
          => IF loc'[p].ret = "true"
             THEN OutItemsRemoved(db, db')
             ELSE db' = db]_vars

\* a purge that removed a checked-out item of a batch with its note, while
\* the other item of the batch stays
C9_Witness ==
    \E p \in AllProcs :
        /\ Finished(p, "purge") /\ loc[p].ret = "true"
        /\ \E i \in RowsOf(loc[p].snap, ItemA1) :
              /\ i.current_status = "OUT"
              /\ \E k \in 1..Len(loc[p].snap.notes) : loc[p].snap.notes[k].item_id = i.id
              /\ \E k \in 1..Len(loc[p].snap.item_locations) :
                    loc[p].snap.item_locations[k].item_id = i.id
        /\ ItemA1 \in ScannedAs(loc[p].snap, "OUT")
        /\ RowsOf(db, ItemA1) = {}
        /\ db.notes = <<>>
        /\ RowsOf(db, ItemA2) # {}

\* after has the IN items of before and their rows as they were
InItemsKept(before, after) ==
    LET ids == {i.id : i \in InItems(before)}
        barcodes == {i.full_barcode : i \in InItems(before)}
        OfInId(r) == r.item_id \in ids
        OfInBarcode(r) == r.barcode \in barcodes
    IN  /\ InItems(after) = InItems(before)
        /\ SelectSeq(after.notes, OfInId) = SelectSeq(before.notes, OfInId)
        /\ SelectSeq(after.item_locations, OfInId)
              = SelectSeq(before.item_locations, OfInId)
        /\ SelectSeq(after.item_scans, OfInBarcode)
              = SelectSeq(before.item_scans, OfInBarcode)
        /\ after.locations = before.locations
        /\ after.item_codes = before.item_codes
        /\ after.batch_scans = before.batch_scans

\* C10: the commit of delete_all_out_items leaves every IN item and every
\* note, location assignment and scan of an IN item unchanged, and the
\* locations, the item codes and the batch records unchanged.
C10_PurgeFrame ==
    [][\A p \in AllProcs :
          loc[p].op = "purge" /\ pc[p] = "purge_commit" /\ pc'[p] # pc[p]
          => InItemsKept(db, db')]_vars

\* a purge that removed an OUT item and left an IN item that has a note, a
\* location assignment and a scan
C10_Witness ==
    \E p \in AllProcs :
        /\ Finished(p, "purge") /\ loc[p].ret = "true"
        /\ OutItems(loc[p].snap) # {}
        /\ \E i \in RowsOf(db, ItemA2) :
              /\ i.current_status = "IN"
              /\ \E k \in 1..Len(db.notes) : db.notes[k].item_id = i.id
              /\ \E k \in 1..Len(db.item_locations) : db.item_locations[k].item_id = i.id
        /\ ItemA2 \in ScannedAs(db, "IN")
        /\ db.batch_scans # <<>>
        /\ db.locations # {}

\* C11: the count delete_all_out_items reports is the number of item rows its
\* commit deletes, whatever check-outs of another process come in between;
\* with no OUT item it reports none, deletes nothing and does not fail.
C11_PurgeCount ==
    [][\A p \in AllProcs :
          /\ loc'[p].op = "purge" /\ pc'[p] # pc[p]
          => /\ pc[p] = "purge_commit" =>
                   loc[p].out_count = Cardinality(db.items \ db'.items)
             /\ pc[p] = "idle" /\ loc'[p].ret # "cancelled" /\ OutItems(db) = {} =>
                   loc'[p].ret = "nothing" /\ loc'[p].out_count = 0 /\ db' = db]_vars

\* C14: in every state each note and each location assignment refers to an
\* item that exists, also while delete_all_out_items of one process
\* interleaves with add_note or a move of an OUT item in another.
C14_NoOrphans ==
    LET ids == {i.id : i \in db.items}
    IN  /\ \A k \in 1..Len(db.notes) : db.notes[k].item_id \in ids
        /\ \A k \in 1..Len(db.item_locations) : db.item_locations[k].item_id \in ids

\* the notes of the item with this id
NotesFor(d, item_id) == {k \in 1..Len(d.notes) : d.notes[k].item_id = item_id}

\* C12: in every state each item has at most one note (add_note creates the
\* note of an item without one and overwrites the note of an item with one),
\* also when two processes call add_note for the same item at once.
C12_OneNotePerItem ==
    \A i \in db.items : Cardinality(NotesFor(db, i.id)) <= 1

\* C13: add_note on a barcode that has no item fails as not found (the notes
\* session skips the barcode, add_note itself returns False), creates no
\* item, and leaves the whole database as it was.
C13_NoteOnUnknownItem ==
    \A p \in {1} :
        /\ Finished(p, "add_note") \/ Finished(p, "add_note_call")
        /\ RowsOf(loc[p].snap, loc[p].barcode) = {}
        => /\ loc[p].ret = IF loc[p].op = "add_note" THEN "not_found" ELSE "false"
           /\ RowsOf(db, loc[p].barcode) = {}
           /\ db = loc[p].snap

\* add_note itself called for a barcode without item, while another item has
\* a note
C13_Witness ==
    /\ Finished(1, "add_note_call") /\ loc[1].ret = "false"
    /\ RowsOf(db, loc[1].barcode) = {}
    /\ db.items # {}
    /\ db.notes # <<>>

\* a location with this barcode is registered
Registered(d, barcode) == \E l \in d.locations : l.barcode = barcode

\* C15: a location is never removed while a location assignment refers to
\* it, so in every state the location of every location assignment is
\* registered, also when remove_location of one process interleaves with a
\* move session or create_batch of another that has validated the location.
C15_AssignedLocationsRegistered ==
    \A k \in 1..Len(db.item_locations) :
        Registered(db, db.item_locations[k].location_barcode)

\* C16: a move to a location barcode that is not registered fails as unknown
\* location (move_item_to_location returns False, the move session ends at
\* once) and changes nothing: no item created, no status changed, no location
\* assignment and no scan appended.
C16_MoveToUnknownLocation ==
    \A p \in {1} :
        /\ Finished(p, "move_item") \/ Finished(p, "move_session")
        /\ ~Registered(loc[p].snap, loc[p].location)
        => /\ pc[p] = "idle"
           /\ loc[p].ret = IF loc[p].op = "move_item" THEN "false" ELSE "invalid"
           /\ db = loc[p].snap

\* move_item_to_location of an item not yet in the database to a location
\* that is not registered, while another location is
C16_Witness ==
    /\ Finished(1, "move_item") /\ loc[1].ret = "false"
    /\ loc[1].barcode = ItemA1
    /\ RowsOf(db, ItemA1) = {}
    /\ ~Registered(db, loc[1].location)
    /\ db.locations # {}

\* process p's last move_item_to_location gave up on a locked database
MoveTimedOut(p) ==
    Finished(p, "move_item") /\ loc[p].retries = max_retries

\* process p's last move_item_to_location named a location not registered
MoveToUnknown(p) ==
    /\ Finished(p, "move_item") /\ loc[p].retries = 0
    /\ ~Registered(loc[p].snap, loc[p].location)
    /\ ~Registered(db, loc[p].location)

\* C17: the result of an operation that gave up on a locked database differs
\* from the result of a failure of the caller's input: what
\* move_item_to_location returns after its retries are used up is not what
\* it returns for a location that is not registered.
C17_LockTimeoutDistinct ==
    \A p, q \in AllProcs :
        MoveTimedOut(p) /\ MoveToUnknown(q) => loc[p].ret # loc[q].ret

\* C18: when the database is locked at every attempt, log_scan and
\* move_item_to_location stop after exactly max_retries attempts, return a
\* failure and leave nothing written: retries never pass max_retries, and a
\* call that failed on the lock alone (its location registered and its
\* barcode well formed; for log_scan, the item ensured) has used up all
\* max_retries attempts and holds no open transaction.
C18_RetriesStopAtMax ==
    \A p \in AllProcs :
        /\ loc[p].retries <= max_retries
        /\ /\ Finished(p, "move_item") /\ loc[p].ret = "false"
           /\ Registered(loc[p].snap, loc[p].location)
           /\ parse_barcode(db, loc[p].barcode, FALSE).ok
           => loc[p].retries = max_retries /\ tx[p] = <<>> /\ lock # p
        /\ /\ Finished(p, "checkout") /\ loc[p].ret = "false"
           /\ loc[p].ens_ret = "true"
           => loc[p].retries = max_retries /\ tx[p] = <<>> /\ lock # p

\* C19: every mutation is retried when it finds the database locked and then
\* completes with its effect applied.  For ensure_item_exists and
\* update_item_status: a finished call on a well-formed barcode has returned
\* True, the item is there, and after a check-out it is OUT.
C19_UniformRetry ==
    \A p \in AllProcs :
        /\ Finished(p, "ensure") /\ loc[p].parsed.ok
           => loc[p].ens_ret = "true" /\ RowsOf(db, loc[p].barcode) # {}
        /\ Finished(p, "checkout") /\ loc[p].parsed.ok
           => /\ loc[p].ens_ret = "true"
              /\ loc[p].upd_ret = "true"
              /\ \A i \in RowsOf(db, loc[p].barcode) : i.current_status = "OUT"

\* C20: an error other than "database is locked" in an attempt of log_scan or
\* move_item_to_location ends the call at once: no further attempt, a failure
\* returned, and nothing the failed attempt wrote is committed (for log_scan
\* no scan, for move_item_to_location no change to the database at all).
C20_OtherFailureAborts ==
    \A p \in {1} :
        /\ Finished(p, "checkout") \/ Finished(p, "move_item")
        /\ loc[p].failure = "error"
        => /\ loc[p].ret = "false"
           /\ loc[p].retries = 0
           /\ tx[p] = <<>> /\ lock = 0
           /\ db.item_scans = loc[p].snap.item_scans
           /\ loc[p].op = "move_item" => db = loc[p].snap

\* the columns of an item that identify it
Identity(i) ==
    <<i.full_barcode, i.batch_barcode, i.item_type, i.generation, i.created_date>>

\* C21: in every state no two item rows have the same full_barcode, and no
\* step changes the full_barcode, batch_barcode, item_type, generation or
\* created_date of an item that stays in the table.
C21_BarcodeUniqueAndFixed ==
    [][/\ \A i, j \in db'.items : i.full_barcode = j.full_barcode => i = j
       /\ \A i \in db.items, j \in db'.items :
             i.id = j.id => Identity(i) = Identity(j)]_vars

\* an item that three calls tried to create, one of them failing on the
\* UNIQUE constraint, and that has been checked out since
C21_Witness ==
    /\ Cardinality(RowsOf(db, ItemA1)) = 1
    /\ \E i \in RowsOf(db, ItemA1) : i.current_status = "OUT"
    /\ Finished(1, "create_batch") /\ loc[1].ret = "already_exists"
    /\ loc[2].op = "checkout"

\* the positions of a sequence table whose row satisfies Test
Positions(table, Test(_)) == {k \in 1..Len(table) : Test(table[k])}

\* C22: with one operator at work, a create_batch that succeeded with
\* quantity q at location L, which was registered when the call began, has
\* added one batch_scans row, q items with status IN whose batch_barcode is
\* the first five fields of their full_barcode, for each new item one
\* item_locations row, at L, and one item_scans row, with status IN, and
\* nothing else: the rows that were there are as they were.
C22_BatchContents ==
    \A p \in {1} :
        Finished(p, "create_batch") /\ loc[p].ret = "true" =>
            LET l == loc[p]
                new == db.items \ l.snap.items
                recs == Gained(l.snap.batch_scans, db.batch_scans)
                locs == Gained(l.snap.item_locations, db.item_locations)
                scans == Gained(l.snap.item_scans, db.item_scans)
            IN  /\ Registered(l.snap, l.location)
                /\ l.snap.items \subseteq db.items
                /\ Grew(l.snap.batch_scans, db.batch_scans)
                /\ Grew(l.snap.item_locations, db.item_locations)
                /\ Grew(l.snap.item_scans, db.item_scans)
                /\ db.notes = l.snap.notes
                /\ db.locations = l.snap.locations
                /\ db.item_codes = l.snap.item_codes
                /\ Len(recs) = 1
                /\ recs[1].quantity = l.quantity
                /\ Cardinality(new) = l.quantity
                /\ Len(locs) = l.quantity
                /\ Len(scans) = l.quantity
                /\ \A i \in new :
                      /\ i.current_status = "IN"
                      /\ i.batch_barcode = join(SubSeq(split(i.full_barcode), 1, 5))
                      /\ i.batch_barcode = recs[1].batch_barcode
                      /\ LET HasItem(r) == r.item_id = i.id
                             HasBarcode(r) == r.barcode = i.full_barcode
                         IN  /\ Cardinality(Positions(locs, HasItem)) = 1
                             /\ \A k \in Positions(locs, HasItem) :
                                   locs[k].location_barcode = l.location
                             /\ Cardinality(Positions(scans, HasBarcode)) = 1
                             /\ \A k \in Positions(scans, HasBarcode) :
                                   scans[k].status = "IN"

\* a batch of two created from a barcode of six fields at a location typed in
\* lower case, next to an item that was there before, itself at a location
C22_Witness ==
    /\ Finished(1, "create_batch") /\ loc[1].ret = "true"
    /\ loc[1].quantity = 2
    /\ loc[1].barcode = ItemA1
    /\ loc[1].location = LocT1
    /\ loc[1].snap.items # {}
    /\ loc[1].snap.item_locations # <<>>

\* C23: with one operator at work, a create_batch that ended with a location
\* that is not registered, a barcode that parse_barcode rejects, or a quantity
\* that is no number or not positive has written nothing: the database is as
\* it was when the call began and no transaction is left open.
C23_BatchRejected ==
    \A p \in {1} :
        /\ Finished(p, "create_batch")
        /\ \/ ~Registered(loc[p].snap, loc[p].location)
           \/ ~loc[p].parsed.ok
           \/ loc[p].quantity <= 0
        => db = loc[p].snap /\ tx[p] = <<>> /\ lock = 0

\* a quantity of -1 entered for a barcode that parses, at a registered
\* location, with items in the database
C23_Witness ==
    /\ Finished(1, "create_batch")
    /\ Registered(loc[1].snap, loc[1].location)
    /\ loc[1].parsed.ok
    /\ loc[1].quantity < 0
    /\ db.items # {}

\* C24: a row of item_codes is deleted only when no item has the row's name
\* as its item_type at the time of the deletion, also when remove_item_code
\* of one process interleaves with another process creating items.
C24_CodeInUseKept ==
    [][\A r \in db.item_codes \ db'.item_codes :
          \A i \in db.items : i.item_type # r.name]_vars

\* a text that is no item barcode: not five or six fields between
\* underscores, or a fourth field that int() does not take
InvalidFormat(barcode) ==
    \/ Len(split(barcode)) \notin {5, 6}
    \/ ~IntOk(split(barcode)[4])

\* C25: with one operator at work, no step of a check-out, a move session, a
\* move_item_to_location or a create_batch whose barcode has an invalid format
\* (a wrong number of fields, a year that is no integer) writes anything:
\* the database and the open transaction stay as they are.
C25_InvalidBarcodeNoWrite ==
    [][\A p \in {1} :
          /\ loc'[p].op \in {"checkout", "move_session", "move_item", "create_batch"}
          /\ InvalidFormat(loc'[p].barcode)
          => db' = db /\ tx' = tx /\ lock' = lock]_vars

\* a check-out scan of a barcode whose year is no number, with items in the
\* database
C25_Witness ==
    /\ Finished(1, "checkout")
    /\ loc[1].barcode = BadYear
    /\ loc[1].ret = "invalid"
    /\ db.items # {}

\* the number of fields of a text: one more than its underscores
FieldCount(s) == 1 + Cardinality({i \in 1..Len(s) : s[i] = "_"})

\* the fourth field of a text of at least four fields
YearField(s) == split(s)[4]

\* process p has parsed its text as a batch or as an item barcode
Parsed(p, how) == pc[p] = "idle" /\ loc[p].op = how

\* the statement without the year: a text is accepted as a batch barcode
\* exactly when it has 5 fields and as an item barcode exactly when it has 5
\* or 6
C26_FieldCountOnly ==
    \A p \in {1} :
        /\ Parsed(p, "parse_batch") =>
              (loc[p].parsed.ok <=> FieldCount(loc[p].barcode) = 5)
        /\ Parsed(p, "parse_item") =>
              (loc[p].parsed.ok <=> FieldCount(loc[p].barcode) \in {5, 6})

\* C26: parse_barcode accepts a text as a batch barcode exactly when it has 5
\* fields between underscores and its year field is an integer, and as an
\* item barcode exactly when it has 5 or 6 fields and its year field is an
\* integer; every other text gives None.  An accepted text comes back as
\* full_barcode, with its fifth field as generation.
C26_FieldCountAndYear ==
    \A p \in {1} :
        LET b == loc[p].barcode
        IN  /\ Parsed(p, "parse_batch") =>
                  (loc[p].parsed.ok <=> FieldCount(b) = 5 /\ IntOk(YearField(b)))
            /\ Parsed(p, "parse_item") =>
                  (loc[p].parsed.ok <=> FieldCount(b) \in {5, 6} /\ IntOk(YearField(b)))
            /\ Parsed(p, "parse_batch") \/ Parsed(p, "parse_item") =>
                  IF loc[p].parsed.ok
                  THEN /\ loc[p].parsed.full_barcode = b
                       /\ loc[p].parsed.generation = split(b)[5]
                  ELSE loc[p].parsed = NoneParsed

\* a text of five fields whose year is no integer, rejected as a batch barcode
C26_Witness ==
    /\ Parsed(1, "parse_batch")
    /\ FieldCount(loc[1].barcode) = 5
    /\ ~IntOk(YearField(loc[1].barcode))
    /\ ~loc[1].parsed.ok

\* the text before the n-th underscore of s, all of s when it has fewer
RECURSIVE UpToUnderscore(_, _)
UpToUnderscore(s, n) ==
    IF Len(s) = 0 THEN s
    ELSE IF s[1] = "_"
    THEN IF n = 1 THEN <<>> ELSE <<"_">> \o UpToUnderscore(Tail(s), n - 1)
    ELSE <<s[1]>> \o UpToUnderscore(Tail(s), n)

\* C27: in every state the batch_barcode of every item is the first five
\* fields of its full_barcode, underscores included, whether the item was
\* created by ensure_item_exists, in a move session or by create_batch.
C27_BatchPrefix ==
    \A i \in db.items :
        /\ FieldCount(i.full_barcode) \in {5, 6}
        /\ i.batch_barcode = UpToUnderscore(i.full_barcode, 5)

\* an item of six fields created by a scan in a move session, next to an item
\* of five fields created by ensure_item_exists
C27_Witness ==
    /\ Finished(1, "move_session")
    /\ loc[1].item_id = 0
    /\ FieldCount(loc[1].barcode) = 6
    /\ RowsOf(db, loc[1].barcode) # {}
    /\ RowsOf(db, BaseA) # {}

\* the text after the last full stop of s
RECURSIVE AfterLastStop(_)
AfterLastStop(s) ==
    IF \A i \in 1..Len(s) : s[i] # "." THEN s
    ELSE AfterLastStop(Tail(s))

\* C28: for every text that parse_barcode accepts, with y the integer value
\* of its year field, the year of created_date is 2000 + y when y < 100 and
\* y when y >= 100; created_date is day, month and that year with full stops
\* between them.
C28_YearNormalised ==
    \A p \in {1} :
        (Parsed(p, "parse_batch") \/ Parsed(p, "parse_item")) /\ loc[p].parsed.ok =>
            LET parts == split(loc[p].barcode)
                y == IntVal(parts[4])
                created == loc[p].parsed.created_date
            IN  /\ IntVal(AfterLastStop(created)) = IF y < 100 THEN 2000 + y ELSE y
                /\ created = parts[2] \o <<".">> \o parts[3] \o <<".">>
                                \o AfterLastStop(created)

\* the year field 100, which stays 100
C28_Witness ==
    /\ Parsed(1, "parse_item")
    /\ loc[1].parsed.ok
    /\ YearField(loc[1].barcode) = <<"1", "0", "0">>
    /\ AfterLastStop(loc[1].parsed.created_date) = <<"1", "0", "0">>

\* the first field of the barcode is a code of table item_codes
CodeRegistered(d, barcode) == \E r \in d.item_codes : r.code = split(barcode)[1]

\* C29: with one operator at work, a check-out scan or a move session scan of
\* a barcode of valid format whose item code is not registered parses with
\* item_type "Unknown" and goes through: afterwards the item exists, once,
\* with status OUT after a check-out and IN after a move, with item_type
\* "Unknown" when the scan created it, and the scan is logged with item_type
\* "Unknown".
C29_UnknownTypeScans ==
    \A p \in {1} :
        /\ Finished(p, "checkout") \/ Finished(p, "move_session")
        /\ ~InvalidFormat(loc[p].barcode)
        /\ ~CodeRegistered(loc[p].snap, loc[p].barcode)
        => LET l == loc[p]
               status == IF l.op = "checkout" THEN "OUT" ELSE "IN"
               scans == Gained(l.snap.item_scans, db.item_scans)
           IN  /\ l.parsed.ok
               /\ l.parsed.item_type = "Unknown"
               /\ l.ret = "true"
               /\ Cardinality(RowsOf(db, l.barcode)) = 1
               /\ \A i \in RowsOf(db, l.barcode) :
                     /\ i.current_status = status
                     /\ RowsOf(l.snap, l.barcode) = {} => i.item_type = "Unknown"
               /\ Len(scans) = 1
               /\ scans[1].barcode = l.barcode
               /\ scans[1].item_type = "Unknown"
               /\ scans[1].status = status

\* a check-out scan of an item not seen before, after its item code was
\* removed from item_codes
C29_Witness ==
    /\ Finished(1, "checkout")
    /\ ~InvalidFormat(loc[1].barcode)
    /\ ~CodeRegistered(loc[1].snap, loc[1].barcode)
    /\ RowsOf(loc[1].snap, loc[1].barcode) = {}
    /\ \E i \in RowsOf(db, loc[1].barcode) :
          i.item_type = "Unknown" /\ i.current_status = "OUT"

\* item i passes the filters on its own columns
MatchesFilter(i, f) ==
    /\ f.item_type # "" => i.item_type = f.item_type
    /\ Len(f.generation) > 0 => i.generation = f.generation
    /\ Len(f.date) > 0 => i.created_date = f.date

\* C30: a detailed report has at most one row for each item, and exactly
\* one for each item that passes the filters when the location filter is
\* empty, also when scans or location assignments of an item carry the same
\* timestamp.
C30_OneRowPerItem ==
    \A p \in {1} :
        Finished(p, "report") =>
            \A i \in db.items :
                LET rows == {r \in loc[p].results : r.item = i}
                IN  /\ Cardinality(rows) <= 1
                    /\ Len(loc[p].filter.location_barcode) = 0 =>
                          Cardinality(rows) = IF MatchesFilter(i, loc[p].filter)
                                              THEN 1 ELSE 0

\* C31: a detailed report whose location filter is not empty and names no
\* registered location has no rows, whatever items there are.
C31_UnknownLocationFilter ==
    \A p \in {1} :
        /\ Finished(p, "report")
        /\ Len(loc[p].filter.location_barcode) > 0
        /\ ~Registered(db, to_upper_alphanumeric(loc[p].filter.location_barcode))
        => loc[p].results = {}

\* the location assignments of the item with this barcode, oldest first
AssignmentsOf(d, barcode) ==
    SelectSeq(d.item_locations,
              LAMBDA r : \E i \in RowsOf(d, barcode) : r.item_id = i.id)

\* C32: with one operator at work, a read of the current location of an item
\* whose last move went to a registered location gives the name of that
\* location, for every sequence of moves, also moves within the same second.
C32_CurrentLocationIsLastMove ==
    \A p \in {1} :
        Finished(p, "current_location") =>
            LET moves == AssignmentsOf(db, loc[p].barcode)
            IN  Len(moves) > 0 /\ Registered(db, moves[Len(moves)].location_barcode) =>
                    loc[p].results =
                        {l.location_name : l \in {r \in db.locations :
                            r.barcode = moves[Len(moves)].location_barcode}}

\* C33: the status of every item is IN or OUT in every state, and an item
\* that enters the table, created by ensure_item_exists, by a scan in a move
\* session or by create_batch, enters it with status IN.
C33_StatusDomain ==
    [][\A i \in db'.items :
          /\ i.current_status \in {"IN", "OUT"}
          /\ (\A j \in db.items : j.id # i.id) => i.current_status = "IN"]_vars

\* an item created by ensure_item_exists on a scan of the second process,
\* while the first has created a batch
C33_Witness ==
    /\ Finished(2, "ensure") /\ loc[2].ens_ret = "true"
    /\ RowsOf(loc[2].snap, loc[2].barcode) = {}
    /\ \E i \in RowsOf(db, loc[2].barcode) : i.current_status = "IN"
    /\ db.batch_scans # <<>>

\* C34: whenever a move session waits for the next barcode it has no open
\* write transaction: no uncommitted writes and not the write lock.
C34_NoOpenTransactionAtPrompt ==
    \A p \in AllProcs :
        pc[p] = "ms_prompt" => tx[p] = <<>> /\ lock # p

\* process q runs a write statement and finds the database locked
LockFailure(q) ==
    /\ pc[q] \in {"ens_insert", "upd_update", "log_insert", "ms_write", "reg_insert"}
    /\ pc'[q] # pc[q]
    /\ LockedByOther(q)

\* C35: a session does not block the others while it waits for input: when
\* a statement of a process finds the database locked, the process that
\* holds the write lock is inside an operation, which ends by itself, and
\* not a move session waiting for the next barcode, so that the statement
\* succeeds when it is tried again later.
C35_NoBlockingAtPrompt ==
    [][\A q \in AllProcs :
          LockFailure(q) => pc[lock] \notin {"idle", "ms_prompt"}]_vars

\* the sequence table before is the beginning of the sequence table after
Extends(after, before) ==
    /\ Len(before) <= Len(after)
    /\ SubSeq(after, 1, Len(before)) = before

\* every item row stays with its identifying columns and the two logs are
\* only appended to
HistoryKept(before, after) ==
    /\ \A i \in before.items :
          \E j \in after.items : j.id = i.id /\ Identity(j) = Identity(i)
    /\ Extends(after.item_locations, before.item_locations)
    /\ Extends(after.item_scans, before.item_scans)

\* C36: a step that is not the commit of delete_all_out_items removes no
\* item row, changes no identifying column of an item row, and removes or
\* changes no row of item_locations or item_scans: the two logs are only
\* appended to.
C36_OnlyPurgeRemoves ==
    [][(\E p \in AllProcs :
            loc[p].op = "purge" /\ pc[p] = "purge_commit" /\ pc'[p] # pc[p])
       \/ HistoryKept(db, db')]_vars

\* a location registered again under its barcode while an item is assigned
\* to it: the assignment and the scan log of the item are still there
C36_Witness ==
    \E p \in AllProcs :
        /\ Finished(p, "register") /\ loc[p].ret = "true"
        /\ \E l \in loc[p].snap.locations : l.barcode = loc[p].location
        /\ \E k \in 1..Len(db.item_locations) :
              db.item_locations[k].location_barcode = loc[p].location
        /\ db.item_locations = loc[p].snap.item_locations
        /\ db.items # {}

\* the positions of the item_scans rows of a barcode
ScansOf(d, barcode) ==
    {k \in 1..Len(d.item_scans) : d.item_scans[k].barcode = barcode}

\* the status of the last item_scans row of a barcode that has one
LastScanStatus(d, barcode) ==
    LET last == CHOOSE k \in ScansOf(d, barcode) :
                    \A m \in ScansOf(d, barcode) : m <= k
    IN  d.item_scans[last].status

\* C37: in every committed state the current_status of an item that has an
\* item_scans row is the status of its most recent item_scans row.
C37_StatusIsLastScan ==
    \A i \in db.items :
        ScansOf(db, i.full_barcode) # {}
            => i.current_status = LastScanStatus(db, i.full_barcode)

\* the sequence numbers a create_batch that succeeded has given to its items
Allocated(l) == l.start_num .. (l.start_num + l.quantity - 1)

\* C38: two calls of create_batch that succeeded, one after the other with
\* check-outs and a purge of the OUT items in between, have given no
\* sequence number twice.
C38_SuffixNeverReused ==
    \A p, q \in AllProcs :
        /\ p # q
        /\ Finished(p, "create_batch") /\ loc[p].ret = "true"
        /\ Finished(q, "create_batch") /\ loc[q].ret = "true"
        => Allocated(loc[p]) \cap Allocated(loc[q]) = {}

\* the positions of the item_locations rows of an item id
AssignedRows(d, item_id) ==
    {k \in 1..Len(d.item_locations) : d.item_locations[k].item_id = item_id}

\* the call of process p has added exactly one item_scans row for barcode
OneScanAdded(p, barcode) ==
    Cardinality(ScansOf(db, barcode))
        = Cardinality(ScansOf(loc[p].snap, barcode)) + 1

\* C39: a log_scan or a move_item_to_location that returned True, after any
\* number of attempts that found the database locked, has committed exactly
\* one item_scans row, and the move exactly one item_locations row: the
\* attempts that failed have left nothing.  The rows of a call are told by
\* its barcode: the two terminals work on different items.
C39_RetryWritesOnce ==
    \A p \in AllProcs :
        /\ Finished(p, "checkout") /\ loc[p].ret = "true"
           => /\ OneScanAdded(p, loc[p].parsed.full_barcode)
              /\ tx[p] = <<>>
        /\ Finished(p, "move_item") /\ loc[p].ret = "true"
           => /\ OneScanAdded(p, loc[p].barcode)
              /\ Cardinality(AssignedRows(db, loc[p].item_id))
                    = Cardinality(AssignedRows(loc[p].snap, loc[p].item_id)) + 1
              /\ tx[p] = <<>>

\* a move_item_to_location that returned True after an attempt that found the
\* database locked
C39_Witness ==
    \E p \in AllProcs :
        /\ Finished(p, "move_item") /\ loc[p].ret = "true"
        /\ loc[p].retries >= 1 /\ loc[p].retries < max_retries

\* the sum of the total column over a set of report rows
RECURSIVE SumOfTotals(_)
SumOfTotals(rows) ==
    IF rows = {} THEN 0
    ELSE LET r == CHOOSE x \in rows : TRUE
         IN  r.total + SumOfTotals(rows \ {r})

\* the (item_type, generation) pairs among the items
TypeGenerationPairs(d) == {<<i.item_type, i.generation>> : i \in d.items}

\* C40: the inventory report has one row for every (item_type, generation)
\* pair among the items and no other row, the total of every row is its
\* in-stock count plus its out count, the totals add up to the number of
\* items, and computing the report writes nothing.
C40_InventorySummary ==
    \A p \in AllProcs :
        Finished(p, "inventory") =>
            LET rows == loc[p].results
                d == loc[p].snap
            IN  /\ {<<r.item_type, r.generation>> : r \in rows} = TypeGenerationPairs(d)
                /\ Cardinality(rows) = Cardinality(TypeGenerationPairs(d))
                /\ \A r \in rows : r.total = r.in_stock + r.out
                /\ SumOfTotals(rows) = Cardinality(d.items)
                /\ db = d /\ tx[p] = <<>> /\ lock # p

\* a report over items of two groups, one of them with an item IN and an
\* item OUT
C40_Witness ==
    \E p \in AllProcs :
        /\ Finished(p, "inventory")
        /\ Cardinality(loc[p].results) >= 2
        /\ \E r \in loc[p].results : r.in_stock >= 1 /\ r.out >= 1

====
